---- MODULE Spec2Model ----
(***************************************************************************)
(* Model of AIProcessingService (src/src/services/ai-processing.ts): the   *)
(* singleton service that runs a smart removal or an object detection      *)
(* through remote providers and falls back to local pixel algorithms.      *)
(*                                                                         *)
(* One operation is followed from its call to its returned value; every    *)
(* await of the code is a step boundary, at which the environment          *)
(* (cancelProcessing, cleanup, the memory sampling timer) may act.         *)
(* Images are rows of pixels (height 0 or 1), so that the distance of      *)
(* every in-bounds sample of the content-aware fill is an integer and the  *)
(* weighted average is computed exactly.                                   *)
(***************************************************************************)
EXTENDS Integers, Sequences, FiniteSets, TLC

(***************************************************************************)
(* Bounds of the model                                                     *)
(***************************************************************************)
\* the widest image submitted (one pixel more than a tile: two tiles)
MaxWidth == 101
\* the longest mask polygon submitted
MaxMaskPoints == 3
\* the number of operations submitted in one behaviour
MaxOps == 1
\* the largest value of Date.now() at a submission
MaxNow == 1
\* the longest row or column handed to the local fill with every mask
MaxStrip == 5
\* the longest side of the buffers handed to region growing with every seed
MaxSide == 3
\* the calls of a detection with the same arguments
MaxCalls == 2
\* a row or column of the scenario width 10
WideStrip == 10
\* the operations submitted to the registry in one behaviour
MaxSubmissions == 3

(***************************************************************************)
(* State                                                                   *)
(***************************************************************************)
VARIABLES
  processingQueue,  \* Map<string, AbortController>: id -> controller
  memoryUsage,      \* the last sampled heap usage, in MB
  aborted,          \* the controllers whose signal is aborted
  now,              \* Date.now() at the latest submission
  opCount,          \* operations submitted so far (names their controllers)
  op                \* the activation of the operation in flight

vars == <<processingQueue, memoryUsage, aborted, now, opCount, op>>

(***************************************************************************)
(* Program constants                                                       *)
(***************************************************************************)
MAX_MEMORY_MB == 512
chunkSize == 100
radius == 5
RegionCap == 10000
MinRegion == 100
ColorThreshold == 50

\* AI_MODELS[modelKey].maxRetries
AI_MODELS ==
  [ rembg   |-> [maxRetries |-> 3, timeout |-> 25000],
    u2net   |-> [maxRetries |-> 3, timeout |-> 30000],
    deeplab |-> [maxRetries |-> 2, timeout |-> 45000] ]

\* HUGGINGFACE_MODELS[modelKey].type
HUGGINGFACE_MODELS ==
  [ segformer     |-> [type |-> "segformer"],
    detr_panoptic |-> [type |-> "detr"],
    mask2former   |-> [type |-> "mask2former"],
    sam           |-> [type |-> "sam"] ]

\* const models = ['rembg', 'u2net', 'deeplab'] in tryAIRemoval
RemovalModels == <<"rembg", "u2net", "deeplab">>

\* variant: the two model lists are exchanged
DetectionModels_Exchanged(hasClick) ==
  IF hasClick THEN <<"detr_panoptic", "mask2former", "segformer">>
              ELSE <<"sam", "mask2former", "detr_panoptic">>

\* the model list of tryHuggingFaceDetection, chosen by the click point
DetectionModels(hasClick) ==
  IF hasClick THEN <<"sam", "mask2former", "detr_panoptic">>
              ELSE <<"detr_panoptic", "mask2former", "segformer">>

\* the endpoint of tryHuggingFaceRemoval
InpaintingProvider == "inpainting"

(***************************************************************************)
(* Pixel buffers: ImageData as [width, height, data], data a sequence of   *)
(* pixels <<r, g, b, a>> in row-major order (index y*width + x, from 0).   *)
(***************************************************************************)
Red == <<255, 0, 0, 255>>
Dark == <<10, 20, 30, 255>>
NearRed == <<240, 10, 5, 255>>
\* the colours at a distance of 50 and of 51 from Red
AtThreshold == <<205, 0, 0, 255>>
OverThreshold == <<204, 0, 0, 255>>

\* a row image: the first `split` pixels hold colour c1, the others c2
RowImage(w, split, c1, c2) ==
  [width |-> w, height |-> IF w = 0 THEN 0 ELSE 1,
   data |-> [i \in 1..w |-> IF i <= split THEN c1 ELSE c2]]

\* the images a caller submits: no pixel, a short row, a uniform row of two
\* tiles, a row of two tiles with an edge in the first one
EmptyImage == RowImage(0, 0, Red, Red)
SmallImage == RowImage(3, 1, Red, Dark)
UniformImage == RowImage(MaxWidth, MaxWidth, Red, Red)
EdgeImage == RowImage(MaxWidth, MaxWidth \div 2, NearRed, Dark)

Min(a, b) == IF a <= b THEN a ELSE b
Max(a, b) == IF a >= b THEN a ELSE b
Abs(a) == IF a < 0 THEN -a ELSE a
SetMin(S) == CHOOSE m \in S : \A v \in S : m <= v
SetMax(S) == CHOOSE m \in S : \A v \in S : m >= v

\* the pixel at (x, y) of a data array of the given width
PixelAt(data, width, x, y) == data[y * width + x + 1]

(***************************************************************************)
(* Local content-aware fill (fallback inpainting)                          *)
(***************************************************************************)
\* Math.sqrt on the perfect squares (the only distances of in-bounds
\* samples in a buffer of height 1)
Sqrt(n) == CHOOSE s \in 0..n : s * s = n

\* weight = 1 / (1 + distance), in units of 1/60 (exact for distance 0..5)
Weight60(distance) == 60 \div (1 + distance)

\* Math.round of the quotient num/den of two non-negative integers
RoundDiv(num, den) == (2 * num + den) \div (2 * den)

\* variant: no bounds test
InBounds_Unchecked(nx, ny, width, height) == TRUE

\* the bounds test of sampleSurroundingPixels
InBounds(nx, ny, width, height) ==
  nx >= 0 /\ nx < width /\ ny >= 0 /\ ny < height

\* the offsets <<dx, dy>> of the samples of the pixel (x, y) of the array, in
\* the order of the loops over dy (outer) and dx (inner): those whose
\* neighbour passes the bounds test (for a pixel of the array the test
\* accepts dx and dy independently of each other, each over a range)
SampleOffsets(x, y, width, height) ==
  CHOOSE offsets \in
    { [k \in 1..(Cardinality(dxs) * Cardinality(dys)) |->
         << SetMin(dxs) + ((k - 1) % Cardinality(dxs)),
            SetMin(dys) + ((k - 1) \div Cardinality(dxs)) >>]
        : dxs \in { {dx \in -radius..radius : InBounds(x + dx, y, width, height)} },
          dys \in { {dy \in -radius..radius : InBounds(x, y + dy, width, height)} } }
      : TRUE

\* sampleSurroundingPixels: the samples of (x, y), in the order of the loops
sampleSurroundingPixels(data, x, y, width, height) ==
  CHOOSE samples \in
    { [k \in 1..Len(offsets) |->
         [px |-> PixelAt(data, width, x + offsets[k][1], y + offsets[k][2]),
          weight |-> Weight60(Sqrt(offsets[k][1] * offsets[k][1]
                                   + offsets[k][2] * offsets[k][2]))]]
        : offsets \in { SampleOffsets(x, y, width, height) } } : TRUE

RECURSIVE WeightedSum(_, _)
WeightedSum(samples, c) ==
  CHOOSE sum \in
    { IF s = << >> THEN 0
      ELSE Head(s).px[c] * Head(s).weight + WeightedSum(Tail(s), c)
        : s \in {samples} } : TRUE

RECURSIVE TotalWeight(_)
TotalWeight(samples) ==
  CHOOSE sum \in
    { IF s = << >> THEN 0 ELSE Head(s).weight + TotalWeight(Tail(s))
        : s \in {samples} } : TRUE

\* calculateWeightedAverage: the rounded weighted mean of every channel
calculateWeightedAverage(samples) ==
  CHOOSE avg \in
    { << RoundDiv(WeightedSum(s, 1), totalWeight),
         RoundDiv(WeightedSum(s, 2), totalWeight),
         RoundDiv(WeightedSum(s, 3), totalWeight),
         RoundDiv(WeightedSum(s, 4), totalWeight) >>
        : s \in {samples}, totalWeight \in {TotalWeight(samples)} } : TRUE

\* the body of the loops of applyContentAwareFill for the pixel of index k:
\* the pixel is overwritten, in place, by the average of its samples
FillPixel(data, width, height, k) ==
  CHOOSE filled \in
    { IF Len(samples) > 0
      THEN [data EXCEPT ![k + 1] = calculateWeightedAverage(samples)]
      ELSE data
        : samples \in { sampleSurroundingPixels(data, k % width, k \div width,
                                                width, height) } } : TRUE

\* the loop body applied to the pixels lo..hi-1 in increasing order (the
\* range is halved to keep the evaluation shallow; the order of the pixels
\* is that of the loops)
RECURSIVE FillRange(_, _, _, _, _)
FillRange(data, width, height, lo, hi) ==
  CHOOSE r \in
    { IF b[2] <= b[1] THEN d
      ELSE IF b[2] = b[1] + 1 THEN FillPixel(d, width, height, b[1])
      ELSE FillRange(FillRange(d, width, height, b[1], (b[1] + b[2]) \div 2),
                     width, height, (b[1] + b[2]) \div 2, b[2])
        : d \in {data}, b \in {<<lo, hi>>} } : TRUE

\* applyContentAwareFill: every pixel of the array, in row-major order
\* (maskPoints is a parameter that the code never reads)
applyContentAwareFill(data, width, height, maskPoints) ==
  FillRange(data, width, height, 0, width * height)

\* variant: every tile is chunkSize wide and high, also at the right and
\* bottom edge
createProcessingChunks_FullTiles(imageData, maskPoints) ==
  LET cols == (imageData.width + chunkSize - 1) \div chunkSize
      rows == (imageData.height + chunkSize - 1) \div chunkSize
  IN [i \in 1..(rows * cols) |->
        [x |-> ((i - 1) % cols) * chunkSize,
         y |-> ((i - 1) \div cols) * chunkSize,
         width |-> chunkSize, height |-> chunkSize,
         maskPoints |-> maskPoints]]

\* createProcessingChunks: the tiles of the image, row-major
createProcessingChunks(imageData, maskPoints) ==
  LET cols == (imageData.width + chunkSize - 1) \div chunkSize
      rows == (imageData.height + chunkSize - 1) \div chunkSize
  IN [i \in 1..(rows * cols) |->
        LET x == ((i - 1) % cols) * chunkSize
            y == ((i - 1) \div cols) * chunkSize
        IN [x |-> x, y |-> y,
            width |-> Min(chunkSize, imageData.width - x),
            height |-> Min(chunkSize, imageData.height - y),
            maskPoints |-> maskPoints]]

\* ctx.getImageData(x, y, w, h): a copy of the rectangle of the canvas
getImageData(canvas, x, y, w, h) ==
  [k \in 1..(w * h) |->
     PixelAt(canvas.data, canvas.width, x + ((k - 1) % w), y + ((k - 1) \div w))]

\* ctx.putImageData(tile, x, y): the rectangle of the canvas is overwritten
putImageData(canvas, tile, x, y, w, h) ==
  [canvas EXCEPT !.data =
     [k \in 1..Len(canvas.data) |->
        LET px == (k - 1) % canvas.width
            py == (k - 1) \div canvas.width
        IN IF px >= x /\ px < x + w /\ py >= y /\ py < y + h
           THEN tile[(py - y) * w + (px - x) + 1]
           ELSE canvas.data[k]]]

\* processChunk: read the tile from the working canvas, fill it, write it back
processChunk(canvas, chunk) ==
  CHOOSE result \in
    { putImageData(canvas, filled, chunk.x, chunk.y, chunk.width, chunk.height) :
        filled \in { applyContentAwareFill(
                       getImageData(canvas, chunk.x, chunk.y, chunk.width, chunk.height),
                       chunk.width, chunk.height, chunk.maskPoints) } } : TRUE

(***************************************************************************)
(* Local region growing (fallback detection)                               *)
(***************************************************************************)
\* the reference colour data[refIndex .. refIndex + 2]; reading past the
\* array gives undefined, and every comparison with NaN is false
Undefined == << -1, -1, -1, -1 >>

RefColor(imageData, startX, startY) ==
  LET k == startY * imageData.width + startX + 1
  IN IF k >= 1 /\ k <= Len(imageData.data) THEN imageData.data[k] ELSE Undefined

\* colorDiff > 50
TooDifferent(px, ref) ==
  /\ ref # Undefined
  /\ Abs(px[1] - ref[1]) + Abs(px[2] - ref[2]) + Abs(px[3] - ref[3]) > ColorThreshold

\* variant: no limit on the region size
FloodRunning_Uncapped(st) == Len(st.stack) > 0

\* the loop condition of floodFill
FloodRunning(st) == Len(st.stack) > 0 /\ Len(st.region) < RegionCap

\* variant: the eight neighbours are pushed
FloodStep_EightConnected(st, imageData, ref) ==
  LET p == st.stack[Len(st.stack)]
      rest == SubSeq(st.stack, 1, Len(st.stack) - 1)
  IN IF \/ p \in st.visited
        \/ p.x < 0 \/ p.x >= imageData.width
        \/ p.y < 0 \/ p.y >= imageData.height
     THEN [st EXCEPT !.stack = rest]
     ELSE IF TooDifferent(PixelAt(imageData.data, imageData.width, p.x, p.y), ref)
     THEN [st EXCEPT !.stack = rest]
     ELSE [stack |-> rest \o << [x |-> p.x + 1, y |-> p.y], [x |-> p.x - 1, y |-> p.y],
                                [x |-> p.x, y |-> p.y + 1], [x |-> p.x, y |-> p.y - 1],
                                [x |-> p.x + 1, y |-> p.y + 1], [x |-> p.x - 1, y |-> p.y - 1],
                                [x |-> p.x + 1, y |-> p.y - 1], [x |-> p.x - 1, y |-> p.y + 1] >>,
           region |-> Append(st.region, p),
           visited |-> st.visited \cup {p}]

\* one pass of the while loop of floodFill: pop a point; skip it when it is
\* visited, out of bounds or too different; else record it and push its four
\* neighbours
FloodStep(st, imageData, ref) ==
  LET p == st.stack[Len(st.stack)]
      rest == SubSeq(st.stack, 1, Len(st.stack) - 1)
  IN IF \/ p \in st.visited
        \/ p.x < 0 \/ p.x >= imageData.width
        \/ p.y < 0 \/ p.y >= imageData.height
     THEN [st EXCEPT !.stack = rest]
     ELSE IF TooDifferent(PixelAt(imageData.data, imageData.width, p.x, p.y), ref)
     THEN [st EXCEPT !.stack = rest]
     ELSE [stack |-> rest \o << [x |-> p.x + 1, y |-> p.y], [x |-> p.x - 1, y |-> p.y],
                                [x |-> p.x, y |-> p.y + 1], [x |-> p.x, y |-> p.y - 1] >>,
           region |-> Append(st.region, p),
           visited |-> st.visited \cup {p}]

\* at most n passes of the loop (the count is halved to keep the evaluation
\* shallow; the passes run in order)
RECURSIVE FloodIterate(_, _, _, _)
FloodIterate(st, imageData, ref, n) ==
  CHOOSE r \in
    { IF m = 0 \/ ~FloodRunning(s) THEN s
      ELSE IF m = 1 THEN FloodStep(s, imageData, ref)
      ELSE FloodIterate(FloodIterate(s, imageData, ref, m \div 2),
                        imageData, ref, m - (m \div 2))
        : s \in {st}, m \in {n} } : TRUE

\* floodFill: the loop from its first pass to its exit, with the region grown
\* from (startX, startY) and the visited set as it is left; a pass pushes points
\* only when the region grows, so 4 * cap + 1 passes empty the stack or fill
\* the region
floodFill_run(imageData, startX, startY, visited) ==
  FloodIterate([stack |-> << [x |-> startX, y |-> startY] >>,
                region |-> << >>, visited |-> visited],
               imageData, RefColor(imageData, startX, startY),
               4 * RegionCap + 1)

\* the array that floodFill returns
floodFill(imageData, startX, startY, visited) ==
  floodFill_run(imageData, startX, startY, visited).region

\* calculateBoundingBox
calculateBoundingBox(points) ==
  CHOOSE bbox \in
    { IF Len(ps) = 0 THEN [x |-> 0, y |-> 0, width |-> 0, height |-> 0]
      ELSE CHOOSE box \in
             { [x |-> SetMin(xs), y |-> SetMin(ys),
                width |-> SetMax(xs) - SetMin(xs),
                height |-> SetMax(ys) - SetMin(ys)]
                 : xs \in { {ps[i].x : i \in 1..Len(ps)} },
                   ys \in { {ps[i].y : i \in 1..Len(ps)} } } : TRUE
        : ps \in {points} } : TRUE

\* the point passed when detectObjects is called without a click point
NoPoint == [x |-> -1, y |-> -1]

\* variant: the Set of the previous call is handed to floodFill again
NewVisited_Kept == op.visited

\* const visited = new Set<string>() in fallbackObjectDetection
NewVisited == {}

\* fallbackObjectDetection: confidence 0.7 is held in percent
fallbackObjectDetection(imageData, clickPoint) ==
  IF clickPoint = NoPoint THEN << >>
  ELSE CHOOSE objects \in
         { IF Len(region) > MinRegion
           THEN << [id |-> <<"fallback", 0>>, label |-> "Detected Region",
                    confidence |-> 70, bbox |-> calculateBoundingBox(region)] >>
           ELSE << >>
             : region \in { floodFill(imageData, clickPoint.x, clickPoint.y,
                                       NewVisited) } } : TRUE

\* the Set handed to floodFill by fallbackObjectDetection, as the call leaves it
fallbackObjectDetection_visited(imageData, clickPoint) ==
  IF clickPoint = NoPoint THEN {}
  ELSE floodFill_run(imageData, clickPoint.x, clickPoint.y, NewVisited).visited

\* parseHuggingFaceResponse: the payload carries at most one list (its shape)
\* with a number of entries; the list read depends on the model type
ExpectedShape(modelType) ==
  CASE modelType = "detr" -> "predictions"
    [] modelType \in {"segformer", "mask2former"} -> "segments"
    [] modelType = "sam" -> "masks"

IdPrefix(modelType) == IF modelType = "detr" THEN "detr" ELSE modelType

parseHuggingFaceResponse(response, modelType) ==
  IF response.shape = ExpectedShape(modelType)
  THEN [i \in 1..response.count |->
          [id |-> <<IdPrefix(modelType), i - 1>>,
           label |-> IF modelType = "sam" THEN "Detected Object" ELSE "label",
           confidence |-> IF modelType = "sam" THEN 90 ELSE 80,
           bbox |-> [x |-> 0, y |-> 0, width |-> 100, height |-> 100]]]
  ELSE << >>

\* the JSON payloads a detection provider answers with
Payloads ==
  { [shape |-> "none", count |-> 0] } \cup
  [shape : {"predictions", "segments", "masks"}, count : {0, 1}]

(***************************************************************************)
(* Values of the state                                                     *)
(***************************************************************************)
\* the values performance.memory can report, in MB: low, between 80% of the
\* limit and the limit, above the limit
MemorySamples == {0, 450, 600}

NoCanvas == [width |-> 0, height |-> 0, data |-> << >>]
NoResult == [success |-> FALSE, error |-> "", by |-> "none",
             canvas |-> NoCanvas, detectedObjects |-> << >>]
NoAbort == [pc |-> "none", modelIdx |-> 0]

\* a mask polygon of n points
MaskOfLen(n) == [i \in 1..n |-> [x |-> i - 1, y |-> 0]]

IdleOp ==
  [pc |-> "idle", kind |-> "none", processingId |-> <<"none", 0>>,
   controller |-> 0, imageData |-> NoCanvas, maskPoints |-> << >>,
   selectedObject |-> FALSE, clickPoint |-> NoPoint,
   events |-> << >>, calls |-> << >>, waits |-> << >>,
   modelIdx |-> 0, retryCount |-> 0, chunkIdx |-> 0,
   canvas |-> NoCanvas, result |-> NoResult,
   memoryAtSubmit |-> 0, abortedAt |-> NoAbort, fallbackRun |-> FALSE,
   visited |-> {}, uiCancelAt |-> "none"]

Init ==
  /\ processingQueue = {}
  /\ memoryUsage = 0
  /\ aborted = {}
  /\ now = 0
  /\ opCount = 0
  /\ op = IdleOp

(***************************************************************************)
(* Helpers of the operation steps                                          *)
(***************************************************************************)
\* onProgress?.({stage, progress, message}): progress is the fraction num/den
Emit(o, stage, num, den) ==
  [o EXCEPT !.events = Append(@, [stage |-> stage, progress |-> <<num, den>>])]

\* variant: the result is handed over while the operation goes on
Return_Resumable(o, res) == [o EXCEPT !.result = res]

\* the operation returns res to its caller
Return(o, res) == [o EXCEPT !.pc = "done", !.result = res]

\* variant: the catch block drops the message of the error
Failure_NoMessage(msg) == NoResult

\* a catch block returns { success: false, error: error.message }
Failure(msg) == [NoResult EXCEPT !.error = msg]
Success(canvas, by) ==
  [NoResult EXCEPT !.success = TRUE, !.canvas = canvas, !.by = by]

\* variant: the signal is not handed on (an undefined signal is never aborted)
RemovalSignalAborted_Unset(o) == FALSE

\* signal.aborted of the operation's own AbortController, as handed by
\* processSmartRemoval to tryHuggingFaceRemoval, tryAIRemoval and
\* advancedLocalRemoval
RemovalSignalAborted(o) == o.controller \in aborted

\* fetch(endpoint, {signal}): the provider receives a request unless the
\* signal is already aborted (the promise then rejects with no request sent)
Fetch(o, provider, isAborted) ==
  IF isAborted THEN o
  ELSE [o EXCEPT !.calls = Append(@, [provider |-> provider,
                                     attempt |-> o.retryCount + 1,
                                     outcome |-> "pending"])]

\* the response of the request in flight is recorded
Settle(o, outcome) ==
  IF o.calls # << >> /\ o.calls[Len(o.calls)].outcome = "pending"
  THEN [o EXCEPT !.calls[Len(o.calls)].outcome = outcome]
  ELSE o

(***************************************************************************)
(* advancedLocalRemoval                                                    *)
(***************************************************************************)
\* variant: the tile is filled in the caller's buffer (no working copy)
advancedLocalRemoval_loop_InPlace(o) ==
  LET chunks == createProcessingChunks(o.imageData, o.maskPoints)
      n == Len(chunks)
      i == o.chunkIdx
  IN IF i < n
     THEN IF o.controller \in aborted
          THEN Return(o, Failure("Processing cancelled"))
          ELSE [Emit(o, "local_processing", 60 * n + 30 * i, n)
                  EXCEPT !.canvas = processChunk(o.imageData, chunks[i + 1]),
                         !.imageData = processChunk(o.imageData, chunks[i + 1]),
                         !.pc = "local_yield"]
     ELSE Return(Emit(o, "completion", 100, 1), Success(o.canvas, "local"))

\* one pass of the tile loop from chunk index o.chunkIdx (0-based): the
\* cancellation check, the progress event and processChunk run without
\* yielding; the loop then waits on its 10 ms timer
advancedLocalRemoval_loop(o) ==
  LET chunks == createProcessingChunks(o.imageData, o.maskPoints)
      n == Len(chunks)
      i == o.chunkIdx
  IN IF i < n
     THEN IF RemovalSignalAborted(o)
          THEN Return(o, Failure("Processing cancelled"))
          ELSE [Emit(o, "local_processing", 60 * n + 30 * i, n)
                  EXCEPT !.canvas = processChunk(o.canvas, chunks[i + 1]),
                         !.pc = "local_yield"]
     ELSE Return(Emit(o, "completion", 100, 1), Success(o.canvas, "local"))

\* the canvas of advancedLocalRemoval is a copy of the caller's buffer
advancedLocalRemoval(o) ==
  advancedLocalRemoval_loop([o EXCEPT !.canvas = o.imageData, !.chunkIdx = 0])

\* variant: the failure of tryAIRemoval is returned to the caller
LocalFallback_Surfaced(o) ==
  Return(o, Failure("All AI models failed or are unavailable"))

\* processSmartRemoval after tryAIRemoval returned a failure
LocalFallback(o) ==
  advancedLocalRemoval(Emit([o EXCEPT !.fallbackRun = TRUE], "fallback", 50, 1))

(***************************************************************************)
(* tryAIRemoval and callAIService                                          *)
(***************************************************************************)
\* the while loop of callAIService at its head, and the for loop of
\* tryAIRemoval at its head (o.modelIdx is the 1-based index of the model)
RECURSIVE callAIService_loop(_), tryAIRemoval_loop(_)
callAIService_loop(o) ==
  LET model == RemovalModels[o.modelIdx]
  IN IF o.retryCount < AI_MODELS[model].maxRetries
     THEN [Fetch(o, model, RemovalSignalAborted(o)) EXCEPT !.pc = "ai_fetch"]
     ELSE \* throw 'Failed after n retries', caught by tryAIRemoval: continue
          tryAIRemoval_loop([o EXCEPT !.modelIdx = @ + 1])

tryAIRemoval_loop(o) ==
  IF o.modelIdx > Len(RemovalModels)
  THEN \* throw 'All AI models failed or are unavailable'
       LocalFallback(o)
  ELSE IF RemovalSignalAborted(o)
  THEN \* throw 'Processing cancelled': tryAIRemoval returns a failure
       LocalFallback(o)
  ELSE callAIService_loop([Emit(o, "ai_processing", 30, 1) EXCEPT !.retryCount = 0])

\* variant: the catch block gives up one attempt early
callAIService_catch_Early(o) ==
  LET model == RemovalModels[o.modelIdx]
      rc == o.retryCount + 1
  IN IF rc >= AI_MODELS[model].maxRetries - 1
     THEN tryAIRemoval_loop([o EXCEPT !.retryCount = rc, !.modelIdx = @ + 1])
     ELSE [o EXCEPT !.retryCount = rc, !.pc = "ai_backoff",
                    !.waits = Append(@, [provider |-> model,
                                         ms |-> (2 ^ rc) * 1000])]

\* variant: the exponent counts the failed attempts from 0
callAIService_catch_FromZero(o) ==
  LET model == RemovalModels[o.modelIdx]
      rc == o.retryCount + 1
  IN IF rc >= AI_MODELS[model].maxRetries
     THEN tryAIRemoval_loop([o EXCEPT !.retryCount = rc, !.modelIdx = @ + 1])
     ELSE [o EXCEPT !.retryCount = rc, !.pc = "ai_backoff",
                    !.waits = Append(@, [provider |-> model,
                                         ms |-> (2 ^ (rc - 1)) * 1000])]

\* the catch block of callAIService
callAIService_catch(o) ==
  LET model == RemovalModels[o.modelIdx]
      rc == o.retryCount + 1
  IN IF rc >= AI_MODELS[model].maxRetries
     THEN \* rethrown, caught by tryAIRemoval: continue with the next model
          tryAIRemoval_loop([o EXCEPT !.retryCount = rc, !.modelIdx = @ + 1])
     ELSE [o EXCEPT !.retryCount = rc, !.pc = "ai_backoff",
                    !.waits = Append(@, [provider |-> model,
                                         ms |-> (2 ^ rc) * 1000])]

\* tryAIRemoval up to its first await (canvas.toBlob)
tryAIRemoval(o) ==
  [Emit(o, "preparation", 10, 1) EXCEPT !.pc = "ai_blob", !.modelIdx = 1]

(***************************************************************************)
(* The registry (processingQueue)                                          *)
(***************************************************************************)
\* Map.set(id, controller): an entry with the same id is replaced
QueueSet(q, id, c) ==
  {e \in q : e.id # id} \cup {[id |-> id, controller |-> c]}

\* Map.delete(id)
QueueDelete(q, id) == {e \in q : e.id # id}

\* variant: the entry is looked up by the prefix of the id
cancelProcessing_ByPrefix(q, abortedNow, id) ==
  LET found == {e \in q : e.id[1] = id[1]}
  IN [queue |-> q \ found,
      aborted |-> abortedNow \cup {e.controller : e \in found}]

\* variant: the controller is aborted and its entry is left in the registry
cancelProcessing_KeepsEntry(q, abortedNow, id) ==
  LET found == {e \in q : e.id = id}
  IN [queue |-> q,
      aborted |-> abortedNow \cup {e.controller : e \in found}]

\* cancelProcessing(processingId): the controller found under the id is
\* aborted and its entry deleted; the registry and the aborted signals after
\* the call
cancelProcessing(q, abortedNow, id) ==
  LET found == {e \in q : e.id = id}
  IN [queue |-> IF found # {} THEN QueueDelete(q, id) ELSE q,
      aborted |-> abortedNow \cup {e.controller : e \in found}]

\* variant: the sweep deletes every entry
forceGarbageCollection_All(q, abortedNow) == {}

\* forceGarbageCollection: the entries whose signal is aborted are deleted
forceGarbageCollection(q, abortedNow) ==
  {e \in q : e.controller \notin abortedNow}

\* the ids an operation can be registered under
ProcessingIds == {"smart_remove", "object_detection"} \X (0..MaxNow)

InFlight == op.pc \notin {"idle", "done"}

\* the operation goes on to o2; when it has returned, the finally block of
\* processSmartRemoval / detectObjects deletes its id from the registry
Continue(o2) ==
  \E next \in {o2} :
    /\ op' = next
    /\ processingQueue' = IF next.pc = "done"
                          THEN QueueDelete(processingQueue, next.processingId)
                          ELSE processingQueue
    /\ UNCHANGED <<memoryUsage, aborted, now, opCount>>

(***************************************************************************)
(* processSmartRemoval                                                     *)
(***************************************************************************)
\* the memory check of processSmartRemoval: usage above 80% of the limit
InsufficientMemory(usage) == usage * 10 > MAX_MEMORY_MB * 8

\* variant: the inpainting endpoint is tried whether or not a detected
\* object was passed
processSmartRemoval_AlwaysInpaints(o) ==
  LET o1 == Emit(o, "initialization", 0, 1)
  IN IF InsufficientMemory(memoryUsage)
     THEN Return(o1, Failure("Insufficient memory for processing"))
     ELSE [o1 EXCEPT !.pc = "hf_blob"]

\* processSmartRemoval from its call to its first await
processSmartRemoval(o) ==
  LET o1 == Emit(o, "initialization", 0, 1)
  IN IF InsufficientMemory(memoryUsage)
     THEN Return(o1, Failure("Insufficient memory for processing"))
     ELSE IF o1.selectedObject
     THEN [o1 EXCEPT !.pc = "hf_blob"]
     ELSE tryAIRemoval(o1)

\* the removal calls made: image, number of mask points, whether a detected
\* object is passed along
RemovalCalls ==
  { [imageData |-> EmptyImage, points |-> MaxMaskPoints, selectedObject |-> FALSE],
    [imageData |-> SmallImage, points |-> 0, selectedObject |-> FALSE],
    [imageData |-> SmallImage, points |-> MaxMaskPoints - 1, selectedObject |-> TRUE],
    [imageData |-> SmallImage, points |-> MaxMaskPoints, selectedObject |-> FALSE],
    [imageData |-> EdgeImage, points |-> MaxMaskPoints, selectedObject |-> TRUE] }

\* a caller invokes processSmartRemoval(imageData, maskPoints, selectedObject)
SubmitRemoval ==
  /\ ~InFlight
  /\ opCount < MaxOps
  /\ \E call \in RemovalCalls, t \in now..MaxNow :
       LET id == <<"smart_remove", t>>
           o2 == processSmartRemoval(
                   [IdleOp EXCEPT !.kind = "remove", !.processingId = id,
                                  !.controller = opCount + 1,
                                  !.imageData = call.imageData,
                                  !.maskPoints = MaskOfLen(call.points),
                                  !.selectedObject = call.selectedObject,
                                  !.memoryAtSubmit = memoryUsage])
       IN /\ op' = o2
          /\ now' = t
          /\ opCount' = opCount + 1
          /\ processingQueue' =
               IF o2.pc = "done"
               THEN QueueDelete(QueueSet(processingQueue, id, opCount + 1), id)
               ELSE QueueSet(processingQueue, id, opCount + 1)
          /\ UNCHANGED <<memoryUsage, aborted>>

\* tryHuggingFaceRemoval: canvas.toBlob has called back; the progress event
\* is emitted and the inpainting request is issued
HfBlobReady ==
  /\ op.pc = "hf_blob"
  /\ Continue([Fetch(Emit(op, "ai_processing", 40, 1), InpaintingProvider,
                     RemovalSignalAborted(op))
                 EXCEPT !.pc = "hf_fetch"])

\* the inpainting request settles: response.ok, or a failure (HTTP status,
\* transport error, or the rejection of an aborted fetch); on failure
\* tryHuggingFaceRemoval returns success = false and tryAIRemoval starts
HfFetchSettle ==
  /\ op.pc = "hf_fetch"
  /\ \E outcome \in {"ok", "fail"} :
       /\ RemovalSignalAborted(op) => outcome = "fail"
       /\ Continue(IF outcome = "ok"
                   THEN [Settle(op, "ok") EXCEPT !.pc = "hf_decode"]
                   ELSE tryAIRemoval(Settle(op, "fail")))

\* response.blob() and blobToCanvas settle: the image loads, or it does not
HfDecode ==
  /\ op.pc = "hf_decode"
  /\ \E loaded \in BOOLEAN :
       Continue(IF loaded
                THEN Return(op, Success(NoCanvas, InpaintingProvider))
                ELSE tryAIRemoval(Settle([op EXCEPT !.calls[Len(op.calls)].outcome = "pending"], "bad")))

\* tryAIRemoval: canvas.toBlob has called back; the provider loop starts
AiBlobReady ==
  /\ op.pc = "ai_blob"
  /\ Continue(tryAIRemoval_loop(op))

\* the request of callAIService settles
AiFetchSettle ==
  /\ op.pc = "ai_fetch"
  /\ \E outcome \in {"ok", "fail"} :
       /\ RemovalSignalAborted(op) => outcome = "fail"
       /\ Continue(IF outcome = "ok"
                   THEN [op EXCEPT !.pc = "ai_body"]
                   ELSE callAIService_catch(Settle(op, "fail")))

\* response.arrayBuffer() settles; on success tryAIRemoval emits the
\* finalization event and starts decoding the payload
AiBody ==
  /\ op.pc = "ai_body"
  /\ \E outcome \in {"ok", "fail"} :
       /\ RemovalSignalAborted(op) => outcome = "fail"
       /\ Continue(IF outcome = "ok"
                   THEN [Emit(Settle(op, "ok"), "finalization", 90, 1)
                           EXCEPT !.pc = "ai_decode"]
                   ELSE callAIService_catch(Settle(op, "fail")))

\* processAIResponse settles: the image loads (success is returned) or it
\* does not (caught as modelError: the loop continues with the next model)
AiDecode ==
  /\ op.pc = "ai_decode"
  /\ \E loaded \in BOOLEAN :
       Continue(IF loaded
                THEN Return(op, Success(NoCanvas, RemovalModels[op.modelIdx]))
                ELSE tryAIRemoval_loop(
                       [op EXCEPT !.calls[Len(op.calls)].outcome = "bad",
                                  !.modelIdx = @ + 1]))

\* the backoff timer of callAIService fires: the while loop goes round
BackoffDone ==
  /\ op.pc = "ai_backoff"
  /\ Continue(callAIService_loop(op))

\* the 10 ms timer of the tile loop fires: the loop goes on to the next tile
LocalYield ==
  /\ op.pc = "local_yield"
  /\ Continue(advancedLocalRemoval_loop([op EXCEPT !.chunkIdx = @ + 1]))

(***************************************************************************)
(* detectObjects                                                           *)
(***************************************************************************)
\* signal.aborted of the operation's own AbortController, as handed by
\* detectObjects to tryHuggingFaceDetection
DetectionSignalAborted(o) == o.controller \in aborted

Detected(objects, by) ==
  [NoResult EXCEPT !.success = TRUE, !.detectedObjects = objects, !.by = by]

\* detectObjects after tryHuggingFaceDetection returned objects: a non-empty
\* list is returned as it is, an empty one is replaced by the local fallback
detectObjects_return(o, objects, by) ==
  IF Len(objects) > 0
  THEN Return(o, Detected(objects, by))
  ELSE Return([o EXCEPT !.fallbackRun = TRUE,
                        !.visited = fallbackObjectDetection_visited(o.imageData,
                                                                    o.clickPoint)],
              Detected(fallbackObjectDetection(o.imageData, o.clickPoint),
                       "local"))

\* the for loop of tryHuggingFaceDetection at its head
tryHuggingFaceDetection_loop(o) ==
  LET models == DetectionModels(o.clickPoint # NoPoint)
  IN IF o.modelIdx > Len(models)
     THEN detectObjects_return(o, << >>, "none")
     ELSE IF DetectionSignalAborted(o)
     THEN \* break
          detectObjects_return(o, << >>, "none")
     ELSE [Fetch(Emit(o, "ai_processing", 30, 1), models[o.modelIdx],
                 DetectionSignalAborted(o))
             EXCEPT !.pc = "det_fetch"]

\* the detection calls made: image and click point
DetectionCalls ==
  { [imageData |-> SmallImage, clickPoint |-> [x |-> 1, y |-> 0]],
    [imageData |-> UniformImage, clickPoint |-> [x |-> MaxWidth \div 2, y |-> 0]],
    [imageData |-> EdgeImage, clickPoint |-> NoPoint] }

\* a caller invokes detectObjects(imageData, clickPoint); the call runs up to
\* its first await (canvas.toBlob)
SubmitDetection ==
  /\ ~InFlight
  /\ opCount < MaxOps
  /\ \E call \in DetectionCalls, t \in now..MaxNow :
       LET id == <<"object_detection", t>>
       IN /\ op' = [Emit([IdleOp EXCEPT !.kind = "detect", !.processingId = id,
                                        !.controller = opCount + 1,
                                        !.imageData = call.imageData,
                                        !.clickPoint = call.clickPoint,
                                        !.memoryAtSubmit = memoryUsage],
                         "initialization", 0, 1)
                      EXCEPT !.pc = "det_blob", !.modelIdx = 1]
          /\ now' = t
          /\ opCount' = opCount + 1
          /\ processingQueue' = QueueSet(processingQueue, id, opCount + 1)
          /\ UNCHANGED <<memoryUsage, aborted>>

\* canvas.toBlob has called back: the provider loop starts
DetBlobReady ==
  /\ op.pc = "det_blob"
  /\ Continue(tryHuggingFaceDetection_loop(op))

\* the request of callHuggingFaceService settles: response.ok, or a failure
\* (thrown, caught by the loop: continue with the next model)
DetFetchSettle ==
  /\ op.pc = "det_fetch"
  /\ \E outcome \in {"ok", "fail"} :
       /\ DetectionSignalAborted(op) => outcome = "fail"
       /\ Continue(IF outcome = "ok"
                   THEN [op EXCEPT !.pc = "det_json"]
                   ELSE tryHuggingFaceDetection_loop(
                          [Settle(op, "fail") EXCEPT !.modelIdx = @ + 1]))

\* response.json() settles with a payload, which parseHuggingFaceResponse
\* turns into the returned list; success is true whatever the list holds,
\* so tryHuggingFaceDetection returns it
DetJsonParsed ==
  /\ op.pc = "det_json"
  /\ ~DetectionSignalAborted(op)
  /\ \E payload \in Payloads :
       LET modelKey == DetectionModels(op.clickPoint # NoPoint)[op.modelIdx]
           modelType == HUGGINGFACE_MODELS[modelKey].type
           objects == parseHuggingFaceResponse(payload, modelType)
           outcome == IF Len(objects) > 0 THEN "objects"
                      ELSE IF payload.shape = ExpectedShape(modelType) THEN "empty"
                      ELSE "unrecognized"
       IN Continue(detectObjects_return(Settle(op, outcome), objects, modelKey))

\* response.json() rejects (invalid JSON, or the body read is aborted), or
\* parseHuggingFaceResponse throws on a malformed entry: the loop continues
DetJsonThrows ==
  /\ op.pc = "det_json"
  /\ Continue(tryHuggingFaceDetection_loop(
                [Settle(op, "fail") EXCEPT !.modelIdx = @ + 1]))

(***************************************************************************)
(* The environment of an operation                                         *)
(***************************************************************************)
\* the position of the operation when its signal is first aborted
MarkAborted(o, ctrls) ==
  IF InFlight /\ o.controller \in ctrls /\ o.controller \notin aborted
  THEN [o EXCEPT !.abortedAt = [pc |-> o.pc, modelIdx |-> o.modelIdx]]
  ELSE o

\* cancelProcessing(processingId)
CancelProcessing ==
  \E id \in ProcessingIds :
    \E after \in { cancelProcessing(processingQueue, aborted, id) } :
      /\ aborted' = after.aborted
      /\ processingQueue' = after.queue
      /\ op' = MarkAborted(op, after.aborted \ aborted)
      /\ UNCHANGED <<memoryUsage, now, opCount>>

\* cleanup(): every controller is aborted and the registry cleared
Cleanup ==
  LET ctrls == {e.controller : e \in processingQueue}
  IN /\ aborted' = aborted \cup ctrls
     /\ processingQueue' = forceGarbageCollection({}, aborted \cup ctrls)
     /\ op' = MarkAborted(op, ctrls)
     /\ UNCHANGED <<memoryUsage, now, opCount>>

\* the setInterval callback of startMemoryMonitoring
MemoryMonitor ==
  \E m \in MemorySamples :
    /\ memoryUsage' = m
    /\ processingQueue' = IF m > MAX_MEMORY_MB
                          THEN forceGarbageCollection(processingQueue, aborted)
                          ELSE processingQueue
    /\ UNCHANGED <<aborted, now, opCount, op>>

Next ==
  \/ SubmitRemoval
  \/ HfBlobReady
  \/ HfFetchSettle
  \/ HfDecode
  \/ AiBlobReady
  \/ AiFetchSettle
  \/ AiBody
  \/ AiDecode
  \/ BackoffDone
  \/ LocalYield
  \/ SubmitDetection
  \/ DetBlobReady
  \/ DetFetchSettle
  \/ DetJsonParsed
  \/ DetJsonThrows
  \/ CancelProcessing
  \/ Cleanup
  \/ MemoryMonitor

Spec == Init /\ [][Next]_vars

(***************************************************************************)
(* The local algorithms on a wider range of buffers: an operation is       *)
(* followed from the point where its remote chain has given no result      *)
(* (processSmartRemoval before its fallback, detectObjects before its      *)
(* fallback).                                                              *)
(***************************************************************************)
\* a w x h buffer of one colour
UniformRect(w, h, c) ==
  [width |-> w, height |-> h, data |-> [k \in 1..(w * h) |-> c]]

\* a w x h buffer whose columns left of `split` hold c1, the others c2
SplitRect(w, h, split, c1, c2) ==
  [width |-> w, height |-> h,
   data |-> [k \in 1..(w * h) |-> IF (k - 1) % w < split THEN c1 ELSE c2]]

\* a w x h buffer whose pixels hold Red where x + y is even, Dark elsewhere
CheckerRect(w, h) ==
  [width |-> w, height |-> h,
   data |-> [k \in 1..(w * h) |->
               IF (((k - 1) % w) + ((k - 1) \div w)) % 2 = 0 THEN Red ELSE Dark]]

\* a w x h buffer that holds Red on its diagonal and in its lower left
\* corner, the colour at distance 50 right of the diagonal, NearRed in the
\* last column and the colour at distance 51 elsewhere
GradedRect(w, h) ==
  [width |-> w, height |-> h,
   data |-> [k \in 1..(w * h) |->
               LET x == (k - 1) % w
                   y == (k - 1) \div w
               IN IF x = y \/ (x = 0 /\ y = h - 1) THEN Red
                  ELSE IF x = y + 1 THEN AtThreshold
                  ELSE IF x = w - 1 THEN NearRed
                  ELSE OverThreshold]]

\* a row (vertical = FALSE) or a column (vertical = TRUE) of n pixels: the
\* pixels a..b-1 hold cIn, the others cOut
Strip(vertical, n, a, b, cIn, cOut) ==
  [width |-> IF vertical THEN 1 ELSE n,
   height |-> IF vertical THEN n ELSE 1,
   data |-> [k \in 1..n |-> IF k - 1 >= a /\ k - 1 < b THEN cIn ELSE cOut]]

\* the mask polygon drawn around the pixels a..b-1 of a row or a column: a
\* rectangle (4 points) or the triangle cut from it (3 points)
StripMask(vertical, a, b, points) ==
  LET rect == IF vertical
              THEN << [x |-> 0, y |-> a], [x |-> 1, y |-> a],
                      [x |-> 1, y |-> b], [x |-> 0, y |-> b] >>
              ELSE << [x |-> a, y |-> 0], [x |-> b, y |-> 0],
                      [x |-> b, y |-> 1], [x |-> a, y |-> 1] >>
  IN IF points = 4 THEN rect ELSE SubSeq(rect, 1, 3)

\* the removals that reach the local fallback: strips of up to MaxStrip
\* pixels with a mask over a..b-1, the masked pixels coloured like the others
\* or not; the strip of 10 pixels with a mask over 3 of them; the strip of two
\* tiles
LocalRemovalCalls ==
  { [imageData |-> Strip(v, n, a, b, cIn, Dark),
     maskPoints |-> StripMask(v, a, b, points)] :
      v \in BOOLEAN, n \in 1..MaxStrip, a \in 0..MaxStrip, b \in 0..MaxStrip,
      cIn \in {Red, Dark}, points \in {3, 4} }
  \cup { [imageData |-> Strip(v, n, 4, 7, Red, Dark),
          maskPoints |-> StripMask(v, 4, 7, 4)] :
           v \in BOOLEAN, n \in {WideStrip, MaxWidth} }

\* the calls above whose mask lies in the strip and has no pixel centre on
\* its slanted edge (the edge from the third point back to the first one)
LocalRemovalInputs ==
  { c \in LocalRemovalCalls :
      /\ \A i \in 1..Len(c.maskPoints) :
           /\ c.maskPoints[i].x >= 0 /\ c.maskPoints[i].x <= c.imageData.width
           /\ c.maskPoints[i].y >= 0 /\ c.maskPoints[i].y <= c.imageData.height
      /\ Len(c.maskPoints) = 3
           => (c.maskPoints[1].x + c.maskPoints[1].y
                 + c.maskPoints[3].x + c.maskPoints[3].y) % 2 = 1 }

\* the detections that reach the local fallback: buffers of up to MaxSide
\* pixels a side (of one colour, of two regions, chequered, graded around the
\* colour threshold) with a seed in or next to the buffer, a row of one
\* colour with the minimum region size, the 100 x 100 buffer
\* of one colour, a buffer of one colour above the region cap, a buffer with
\* two regions
LocalDetectionInputs ==
  { [imageData |-> img, clickPoint |-> [x |-> x, y |-> y]] :
      img \in UNION { { UniformRect(w, h, Red), SplitRect(w, h, 1, NearRed, Dark),
                          CheckerRect(w, h), GradedRect(w, h) } :
                        w \in 0..MaxSide, h \in 0..MaxSide },
      x \in -1..MaxSide, y \in -1..MaxSide }
  \cup { [imageData |-> UniformRect(MinRegion, 1, Red), clickPoint |-> [x |-> 50, y |-> 0]],
         [imageData |-> UniformRect(100, 100, Red), clickPoint |-> [x |-> 50, y |-> 50]],
         [imageData |-> UniformRect(MaxWidth, 100, Red), clickPoint |-> [x |-> 50, y |-> 50]],
         [imageData |-> SplitRect(30, 10, 15, NearRed, Dark), clickPoint |-> [x |-> 20, y |-> 5]] }

\* the operation at the point where its remote chain has given no result
LocalInit ==
  /\ processingQueue = {}
  /\ memoryUsage = 0
  /\ aborted = {}
  /\ now = 0
  /\ opCount = 1
  /\ op \in { [IdleOp EXCEPT !.pc = "local_call", !.kind = "remove",
                             !.controller = 1,
                             !.imageData = c.imageData,
                             !.maskPoints = c.maskPoints] : c \in LocalRemovalInputs }
            \cup
            { [IdleOp EXCEPT !.pc = "local_call", !.kind = "detect",
                             !.controller = 1,
                             !.imageData = c.imageData,
                             !.clickPoint = c.clickPoint] : c \in LocalDetectionInputs }

\* processSmartRemoval goes on to its local fallback
LocalRemoval ==
  /\ op.pc = "local_call"
  /\ op.kind = "remove"
  /\ Continue(LocalFallback(op))

\* detectObjects goes on to its local fallback
LocalDetection ==
  /\ op.pc = "local_call"
  /\ op.kind = "detect"
  /\ Continue(detectObjects_return(op, << >>, "none"))

\* detectObjects is called again with the same arguments and reaches its
\* local fallback again
LocalDetectionAgain ==
  /\ op.pc = "done"
  /\ op.kind = "detect"
  /\ opCount < MaxCalls
  /\ op' = detectObjects_return(
             [IdleOp EXCEPT !.kind = "detect", !.controller = opCount + 1,
                            !.imageData = op.imageData,
                            !.clickPoint = op.clickPoint],
             << >>, "none")
  /\ opCount' = opCount + 1
  /\ UNCHANGED <<processingQueue, memoryUsage, aborted, now>>

LocalNext ==
  \/ LocalRemoval
  \/ LocalYield
  \/ LocalDetection
  \/ LocalDetectionAgain

LocalSpec == LocalInit /\ [][LocalNext]_vars

(***************************************************************************)
(* The registry under concurrent operations: op is the sequence of the     *)
(* activations started so far; an activation is followed from its          *)
(* registration to its finally block (the steps in between leave the       *)
(* registry alone).                                                        *)
(***************************************************************************)
RegistryInit ==
  /\ processingQueue = {}
  /\ memoryUsage = 0
  /\ aborted = {}
  /\ now = 0
  /\ opCount = 0
  /\ op = << >>

\* processSmartRemoval or detectObjects is called at Date.now() = t: the id
\* is built from the clock, and the new controller is set under it
RegistrySubmit ==
  /\ opCount < MaxSubmissions
  /\ \E prefix \in {"smart_remove", "object_detection"}, t \in now..MaxNow :
       /\ op' = Append(op, [processingId |-> <<prefix, t>>,
                            controller |-> opCount + 1, pc |-> "running"])
       /\ processingQueue' = QueueSet(processingQueue, <<prefix, t>>, opCount + 1)
       /\ now' = t
       /\ opCount' = opCount + 1
       /\ UNCHANGED <<memoryUsage, aborted>>

\* an operation returns: its finally block deletes its id
RegistryReturn ==
  \E i \in 1..Len(op) :
    /\ op[i].pc = "running"
    /\ op' = [op EXCEPT ![i].pc = "done"]
    /\ processingQueue' = QueueDelete(processingQueue, op[i].processingId)
    /\ UNCHANGED <<memoryUsage, aborted, now, opCount>>

\* cancelProcessing(processingId)
RegistryCancel ==
  \E id \in ProcessingIds :
    \E after \in { cancelProcessing(processingQueue, aborted, id) } :
      /\ aborted' = after.aborted
      /\ processingQueue' = after.queue
      /\ UNCHANGED <<memoryUsage, now, opCount, op>>

\* cleanup()
RegistryCleanup ==
  /\ aborted' = aborted \cup {e.controller : e \in processingQueue}
  /\ processingQueue' = forceGarbageCollection({}, aborted')
  /\ UNCHANGED <<memoryUsage, now, opCount, op>>

RegistryNext ==
  \/ RegistrySubmit
  \/ RegistryReturn
  \/ RegistryCancel
  \/ RegistryCleanup
  \/ MemoryMonitor

RegistrySpec == RegistryInit /\ [][RegistryNext]_vars

(***************************************************************************)
(* Vocabulary of the properties                                            *)
(***************************************************************************)
Done == op.pc = "done"
Cancelled == op.controller \in aborted

\* a / b <= c / d for progress fractions <<a, b>> and <<c, d>>
ProgressLeq(p, q) == p[1] * q[2] <= q[1] * p[2]

LastEvent == op.events[Len(op.events)]

\* the provider order of the operation: the inpainting endpoint (contacted
\* only with a detected-object hint), then rembg, u2net, deeplab for a
\* removal; sam, mask2former, detr_panoptic for a detection with a click
\* point; detr_panoptic, mask2former, segformer for one without
Chain ==
  IF op.kind = "remove" THEN <<"inpainting", "rembg", "u2net", "deeplab">>
  ELSE IF op.clickPoint # NoPoint THEN <<"sam", "mask2former", "detr_panoptic">>
  ELSE <<"detr_panoptic", "mask2former", "segformer">>

InChain(provider) == \E i \in 1..Len(Chain) : Chain[i] = provider

ChainIndex(provider) ==
  IF InChain(provider) THEN CHOOSE i \in 1..Len(Chain) : Chain[i] = provider
  ELSE 0

\* the requests received by a provider, in order
CallsTo(provider) == SelectSeq(op.calls, LAMBDA c : c.provider = provider)

\* request outcomes: a failed request (HTTP status, transport error, abort),
\* a response that could not be used, a response that gave a result
FailedOutcomes == {"fail"}
UnusableOutcomes == {"bad", "unrecognized"}
ResultOutcomes == {"ok", "objects"}

\* the positions at which a provider is being tried
ProviderPcs == {"hf_fetch", "hf_decode", "ai_fetch", "ai_body", "ai_decode",
                "ai_backoff", "det_fetch", "det_json"}
RetryLoopPcs == {"ai_fetch", "ai_body", "ai_backoff"}
ChainPcs == ProviderPcs \cup {"hf_blob", "ai_blob", "det_blob"}

ValidMask == Len(op.maskPoints) >= 3
NonEmptyBuffer == op.imageData.width > 0 /\ op.imageData.height > 0

(***************************************************************************)
(* C1                                                                      *)
(***************************************************************************)
\* C1: within one removal operation the progress values of the emitted
\* progress events are non-decreasing in emission order.
C1_ProgressNonDecreasing ==
  op.kind = "remove" =>
    \A i, j \in 1..Len(op.events) :
      i < j => ProgressLeq(op.events[i].progress, op.events[j].progress)

(***************************************************************************)
(* C2                                                                      *)
(***************************************************************************)
\* C2: a removal operation that returns a successful result has a last
\* progress event whose progress is exactly 100, whether a remote provider
\* or the local fallback produced the result.
C2_SuccessEndsAt100 ==
  (op.kind = "remove" /\ Done /\ op.result.success) =>
    (op.events # << >> /\ LastEvent.progress = <<100, 1>>)

(***************************************************************************)
(* C3                                                                      *)
(***************************************************************************)
\* every request of the operation failed or gave an unusable response
AllRequestsFailed ==
  \A k \in 1..Len(op.calls) :
    op.calls[k].outcome \in FailedOutcomes \cup UnusableOutcomes

AlwaysFailed(provider) ==
  /\ CallsTo(provider) # << >>
  /\ \A k \in 1..Len(CallsTo(provider)) : CallsTo(provider)[k].outcome = "fail"

\* the chain has gone past the provider without a cancellation in the chain
MovedPast(m) ==
  /\ op.abortedAt.pc \notin ChainPcs
  /\ \/ \E k \in 1..Len(op.calls) :
          /\ op.calls[k].provider \in {RemovalModels[i] : i \in 1..Len(RemovalModels)}
          /\ ChainIndex(op.calls[k].provider) > ChainIndex(RemovalModels[m])
     \/ op.fallbackRun

\* C4: a removal provider whose requests all fail has received exactly
\* maxRetries requests when the chain moves on; a provider that succeeds on
\* its first attempt has received exactly 1 request; and when the first
\* provider always fails and the second succeeds at once the result is
\* success.
C4_RetryCounts ==
  op.kind = "remove" =>
    /\ \A m \in 1..Len(RemovalModels) :
         (AlwaysFailed(RemovalModels[m]) /\ MovedPast(m))
           => Len(CallsTo(RemovalModels[m])) = AI_MODELS[RemovalModels[m]].maxRetries
    /\ \A m \in 1..Len(RemovalModels) :
         (Done /\ CallsTo(RemovalModels[m]) # << >>
            /\ CallsTo(RemovalModels[m])[1].outcome = "ok")
           => Len(CallsTo(RemovalModels[m])) = 1
    /\ (Done /\ AlwaysFailed(RemovalModels[1]) /\ CallsTo(RemovalModels[2]) # << >>
          /\ CallsTo(RemovalModels[2])[1].outcome = "ok")
         => (op.result.success /\ op.result.by = RemovalModels[2])

C4_Witness ==
  /\ op.kind = "remove" /\ Done
  /\ AlwaysFailed(RemovalModels[1])
  /\ Len(CallsTo(RemovalModels[1])) = 3
  /\ Len(CallsTo(RemovalModels[2])) = 1
  /\ CallsTo(RemovalModels[2])[1].outcome = "ok"
  /\ op.result.success

(***************************************************************************)
(* C5                                                                      *)
(***************************************************************************)
\* the place in Chain of the provider being tried when the signal was aborted
AbortedChainIndex ==
  IF op.abortedAt.pc \in {"hf_fetch", "hf_decode"} THEN 1
  ELSE IF op.kind = "remove" THEN op.abortedAt.modelIdx + 1
  ELSE op.abortedAt.modelIdx

\* C5: when an operation is cancelled while provider i of its chain is being
\* tried (a request in flight, its response being read, or a backoff wait),
\* no provider after i ever receives a request of that operation.
C5_NoLaterProviderAfterCancel ==
  op.abortedAt.pc \in ProviderPcs =>
    \A k \in 1..Len(op.calls) :
      ChainIndex(op.calls[k].provider) <= AbortedChainIndex

C5_Witness ==
  /\ op.kind = "remove" /\ Done
  /\ op.abortedAt.pc = "ai_backoff" /\ op.abortedAt.modelIdx = 1
  /\ Len(CallsTo("rembg")) = 2
  /\ CallsTo("u2net") = << >>

(***************************************************************************)
(* C6                                                                      *)
(***************************************************************************)
\* C6: once the signal is aborted during a provider's retry loop, no further
\* backoff wait is started and no further request is issued.
C6_AbortStopsRetryLoop ==
  [][ (Cancelled /\ op.pc \in RetryLoopPcs)
        => (Len(op'.waits) = Len(op.waits) /\ Len(op'.calls) = Len(op.calls)) ]_vars

(***************************************************************************)
(* C7                                                                      *)
(***************************************************************************)
\* C7: no step of an operation changes the pixel buffer its caller passed.
C7_CallerBufferUntouched ==
  [][ InFlight => op'.imageData = op.imageData ]_vars

\* a removal cancelled between two tiles: the working copy is changed
C7_Witness ==
  /\ op.kind = "remove" /\ Done /\ Cancelled
  /\ op.abortedAt.pc = "local_yield"
  /\ ~op.result.success
  /\ op.canvas.width = op.imageData.width
  /\ op.canvas # op.imageData

(***************************************************************************)
(* C8                                                                      *)
(***************************************************************************)
\* the requests follow the order of Chain, and a provider receives a request
\* only after every provider before it was tried and failed
OrderedAfterFailures ==
  \A l \in 1..Len(op.calls) :
    /\ InChain(op.calls[l].provider)
    /\ \A i \in 1..(ChainIndex(op.calls[l].provider) - 1) :
         \/ Chain[i] = "inpainting" /\ ~op.selectedObject
         \/ /\ \E k \in 1..(l - 1) : op.calls[k].provider = Chain[i]
            /\ \A k \in 1..Len(op.calls) :
                 op.calls[k].provider = Chain[i]
                   => (k < l /\ op.calls[k].outcome \in FailedOutcomes \cup UnusableOutcomes)

\* after a request with one of the outcomes, no request follows and the
\* local fallback is not run
EarlyExitOn(outcomes) ==
  \A k \in 1..Len(op.calls) :
    op.calls[k].outcome \in outcomes => (k = Len(op.calls) /\ ~op.fallbackRun)

C9_HardLimitFailsFast ==
  (op.pc # "idle" /\ op.memoryAtSubmit > MAX_MEMORY_MB)
    => (op.calls = << >> /\ (Done => ~op.result.success))

(***************************************************************************)
(* C10                                                                     *)
(***************************************************************************)
\* C10: a removal whose mask has fewer than 3 points is rejected before any
\* provider is contacted and before the local fallback runs, and never
\* yields a successful result.
C10_ShortMaskRejected ==
  (op.kind = "remove" /\ ~ValidMask)
    => (op.calls = << >> /\ ~op.fallbackRun /\ (Done => ~op.result.success))

(***************************************************************************)
(* C11                                                                     *)
(***************************************************************************)
\* C11: once an operation has produced its result, that result is never
\* replaced by another one and no further progress event of the operation
\* is emitted.
C11_OneResultThenSilence ==
  [][ (op.result # NoResult /\ op'.controller = op.controller)
        => (op'.result = op.result /\ op'.events = op.events) ]_vars

\* a removal that returned the local fallback's result after its events,
\* seen after its entry has left the registry
C11_Witness ==
  /\ op.kind = "remove" /\ Done
  /\ op.fallbackRun /\ op.result.success
  /\ Len(op.events) >= 3
  /\ processingQueue = {}

(***************************************************************************)
(* C12                                                                     *)
(***************************************************************************)
\* the rejection of a pending request or body read whose signal is aborted
AbortRejection ==
  /\ Cancelled
  /\ \/ HfFetchSettle
     \/ AiFetchSettle
     \/ AiBody
     \/ DetFetchSettle
     \/ DetJsonThrows

\* the callbacks that the runtime always delivers: canvas.toBlob, the load or
\* error event of a decoded image, the backoff timer, the tile loop's timer,
\* the rejection of an aborted request
RuntimeCallback ==
  \/ HfBlobReady
  \/ AiBlobReady
  \/ DetBlobReady
  \/ HfDecode
  \/ AiDecode
  \/ BackoffDone
  \/ LocalYield
  \/ AbortRejection

\* the service under fair scheduling of its callbacks and of its memory
\* sampling timer; the settling of a request is left to the provider, which
\* may never respond
LiveSpec ==
  Init /\ [][Next]_vars /\ WF_vars(RuntimeCallback) /\ WF_vars(MemoryMonitor)

\* C12: every submitted operation eventually returns a result, also when a
\* provider never responds to a request (the attempt being abandoned after
\* the provider's timeout).
C12_EveryOperationTerminates == InFlight ~> Done

(***************************************************************************)
(* C13                                                                     *)
(***************************************************************************)
\* the seed of a detection lies in its buffer
SeedInBuffer ==
  /\ op.clickPoint.x >= 0 /\ op.clickPoint.x < op.imageData.width
  /\ op.clickPoint.y >= 0 /\ op.clickPoint.y < op.imageData.height

\* C13: for every buffer and seed point the loop of floodFill exits, and the
\* region it returns holds at most 10,000 pixels and no pixel twice.
C13_FloodFillBounded ==
  (op.kind = "detect" /\ Done /\ op.clickPoint # NoPoint) =>
    \A st \in { floodFill_run(op.imageData, op.clickPoint.x, op.clickPoint.y,
                              NewVisited) } :
      /\ ~FloodRunning(st)
      /\ Len(st.region) <= RegionCap
      /\ Cardinality({st.region[i] : i \in 1..Len(st.region)}) = Len(st.region)

\* a region stopped by the cap in a buffer of more pixels of the seed's colour
C13_Witness ==
  /\ op.kind = "detect" /\ Done /\ SeedInBuffer
  /\ op.imageData.width * op.imageData.height > RegionCap
  /\ Cardinality(op.visited) = RegionCap
  /\ op.result.detectedObjects # << >>

UniformBuffer ==
  \A k \in 1..Len(op.imageData.data) : op.imageData.data[k] = op.imageData.data[1]

\* C15: on a buffer of one colour with at most 10,000 pixels, region growing
\* from a seed in the buffer returns every pixel, and the bounding box of the
\* region is (0, 0, W, H): its width and height count the columns and rows.
C15_UniformBufferFullBox ==
  (op.kind = "detect" /\ Done /\ SeedInBuffer /\ UniformBuffer
     /\ op.imageData.width * op.imageData.height <= RegionCap) =>
    \A region \in { floodFill(op.imageData, op.clickPoint.x, op.clickPoint.y,
                              NewVisited) } :
      /\ Len(region) = op.imageData.width * op.imageData.height
      /\ calculateBoundingBox(region) =
           [x |-> 0, y |-> 0,
            width |-> op.imageData.width, height |-> op.imageData.height]

(***************************************************************************)
(* C16                                                                     *)
(***************************************************************************)
\* the tiles in which the local fill of the operation's buffer runs
Tiles == createProcessingChunks(op.imageData, op.maskPoints)

\* every element that the fill of a width x height array reads or writes
\* lies in the array
FillInArray(width, height) ==
  \A x \in 0..(width - 1), y \in 0..(height - 1) :
    /\ y * width + x \in 0..(width * height - 1)
    /\ \A offsets \in { SampleOffsets(x, y, width, height) } :
         \A k \in 1..Len(offsets) :
           /\ x + offsets[k][1] \in 0..(width - 1)
           /\ y + offsets[k][2] \in 0..(height - 1)
           /\ (y + offsets[k][2]) * width + (x + offsets[k][1])
                \in 0..(width * height - 1)

\* C16: for every buffer and every mask polygon of at least 3 points, every
\* tile of the local fill lies in the buffer, and the fill of a tile reads and
\* writes only elements of the tile's pixel array.
C16_FillStaysInBounds ==
  (op.kind = "remove" /\ Len(op.maskPoints) >= 3) =>
    \A i \in 1..Len(Tiles) :
      /\ Tiles[i].x >= 0 /\ Tiles[i].y >= 0
      /\ Tiles[i].width >= 1 /\ Tiles[i].height >= 1
      /\ Tiles[i].x + Tiles[i].width <= op.imageData.width
      /\ Tiles[i].y + Tiles[i].height <= op.imageData.height
      /\ FillInArray(Tiles[i].width, Tiles[i].height)

\* a fill that ran over two tiles, the second one narrower than the radius
C16_Witness ==
  /\ op.kind = "remove" /\ Done /\ op.result.success /\ op.result.by = "local"
  /\ Len(op.maskPoints) >= 3
  /\ Len(Tiles) = 2
  /\ Tiles[2].width * Tiles[2].height < radius
  /\ op.result.canvas # op.imageData

(***************************************************************************)
(* C17                                                                     *)
(***************************************************************************)
\* the edge from a to b of a polygon crosses the half line that runs from
\* the centre of the pixel (x, y) to the right (coordinates are doubled: the
\* centre is (2x + 1, 2y + 1))
EdgeCrosses(a, b, x, y) ==
  /\ (2 * a.y > 2 * y + 1) # (2 * b.y > 2 * y + 1)
  /\ IF b.y > a.y
     THEN (2 * x + 1 - 2 * a.x) * (2 * b.y - 2 * a.y)
            < (2 * y + 1 - 2 * a.y) * (2 * b.x - 2 * a.x)
     ELSE (2 * x + 1 - 2 * a.x) * (2 * b.y - 2 * a.y)
            > (2 * y + 1 - 2 * a.y) * (2 * b.x - 2 * a.x)

\* the centre of the pixel (x, y) lies inside the polygon (even-odd rule)
InsideMask(maskPoints, x, y) ==
  Cardinality({ i \in 1..Len(maskPoints) :
                  EdgeCrosses(maskPoints[i],
                              maskPoints[(i % Len(maskPoints)) + 1], x, y) }) % 2 = 1

\* the 0-based indices of the pixels of the operation's buffer, and those
\* inside and outside its mask
PixelIndices == 0..(op.imageData.width * op.imageData.height - 1)
Masked(k) ==
  InsideMask(op.maskPoints, k % op.imageData.width, k \div op.imageData.width)

LocalResult ==
  op.kind = "remove" /\ Done /\ op.result.success /\ op.result.by = "local"

\* C17: in the output of the local fill every pixel outside the mask polygon
\* holds the channel values it held in the input buffer.
C17_OutsideMaskUnchanged ==
  LocalResult =>
    \A k \in PixelIndices :
      ~Masked(k) => op.result.canvas.data[k + 1] = op.imageData.data[k + 1]

(***************************************************************************)
(* C18                                                                     *)
(***************************************************************************)
\* C18: when every pixel outside the mask holds one colour C, the output of
\* the local fill holds C at every pixel inside the mask, whatever the masked
\* pixels held.
C18_ConstantSurroundFillsConstant ==
  LocalResult =>
    \A o \in PixelIndices :
      (~Masked(o) /\ \A k \in PixelIndices :
                       ~Masked(k) => op.imageData.data[k + 1] = op.imageData.data[o + 1])
        => \A k \in PixelIndices :
             Masked(k) => op.result.canvas.data[k + 1] = op.imageData.data[o + 1]

(***************************************************************************)
(* C19                                                                     *)
(***************************************************************************)
\* C19: a detection provider whose payload is not recognized (it lacks the
\* list of its model type) counts as failed: unless it is the last of the
\* chain or the operation is cancelled, the next provider of the chain
\* receives the next request, and the detection itself does not fail.
C19_UnrecognizedPayloadMovesOn ==
  (op.kind = "detect" /\ Done /\ ~Cancelled) =>
    /\ op.result.success
    /\ \A k \in 1..Len(op.calls) :
         (op.calls[k].outcome = "unrecognized"
            /\ ChainIndex(op.calls[k].provider) < Len(Chain))
           => /\ k < Len(op.calls)
              /\ op.calls[k + 1].provider = Chain[ChainIndex(op.calls[k].provider) + 1]

(***************************************************************************)
(* C20                                                                     *)
(***************************************************************************)
\* the activations that have not returned
Running == {i \in 1..Len(op) : op[i].pc = "running"}

\* C20: no two operations in flight at the same time are registered under
\* the same id, and an operation in flight whose signal is not aborted keeps
\* its own controller in the registry under its id.
C20_FreshIds ==
  /\ \A i, j \in Running : i # j => op[i].processingId # op[j].processingId
  /\ \A i \in Running :
       op[i].controller \notin aborted
         => [id |-> op[i].processingId, controller |-> op[i].controller]
              \in processingQueue

(***************************************************************************)
(* C21                                                                     *)
(***************************************************************************)
\* the id names an operation in flight that has not been cancelled
LiveId(id) ==
  \E i \in Running : op[i].processingId = id /\ op[i].controller \notin aborted

\* the registry and the aborted signals as they are
RegistryNow == [queue |-> processingQueue, aborted |-> aborted]

\* C21: cancelling an id that is unknown, already cancelled or already
\* terminal changes neither the registry nor any signal, and cancelling an id
\* twice leaves what cancelling it once leaves.
C21_CancelIdempotentTotal ==
  \A id \in ProcessingIds :
    \A once \in { cancelProcessing(processingQueue, aborted, id) } :
      /\ ~LiveId(id) => once = RegistryNow
      /\ cancelProcessing(once.queue, once.aborted, id) = once

\* one operation cancelled and still running, one returned, one in flight
\* and registered
C21_Witness ==
  /\ \E i \in Running : op[i].controller \in aborted /\ ~LiveId(op[i].processingId)
  /\ \E i \in 1..Len(op) : op[i].pc = "done" /\ ~LiveId(op[i].processingId)
  /\ \E i \in Running :
       [id |-> op[i].processingId, controller |-> op[i].controller] \in processingQueue

(***************************************************************************)
(* C22: the service driven through the hook useAIProcessing                *)
(***************************************************************************)
NoId == <<"none", 0>>

\* processingIdRef.current: useRef(null), and no statement of the hook
\* assigns it (the service does not hand the id of an operation to its caller)
processingIdRef == NoId

\* the hook's cancelProcessing, bound to the Cancel button of the modal that
\* is open while an operation runs: the service is asked to cancel only when
\* the ref holds an id; the position of the operation at the first request
\* is recorded in the activation
HookCancel ==
  /\ InFlight
  /\ \E after \in { IF processingIdRef # NoId
                    THEN cancelProcessing(processingQueue, aborted, processingIdRef)
                    ELSE [queue |-> processingQueue, aborted |-> aborted] } :
       /\ aborted' = after.aborted
       /\ processingQueue' = after.queue
       /\ op' = [MarkAborted(op, after.aborted \ aborted)
                  EXCEPT !.uiCancelAt = IF @ = "none" THEN op.pc ELSE @]
       /\ UNCHANGED <<memoryUsage, now, opCount>>

\* the operations are started by the hook, which passes its arguments on to
\* the service, and only the hook cancels
HookNext ==
  \/ SubmitRemoval
  \/ HfBlobReady
  \/ HfFetchSettle
  \/ HfDecode
  \/ AiBlobReady
  \/ AiFetchSettle
  \/ AiBody
  \/ AiDecode
  \/ BackoffDone
  \/ LocalYield
  \/ SubmitDetection
  \/ DetBlobReady
  \/ DetFetchSettle
  \/ DetJsonParsed
  \/ DetJsonThrows
  \/ MemoryMonitor
  \/ HookCancel

HookSpec == Init /\ [][HookNext]_vars

\* C22: a cancellation requested through the hook while the operation is in
\* flight aborts the signal of that operation, which then does not return a
\* successful result.
C22_UiCancelSignalsToken ==
  op.uiCancelAt # "none" => (Cancelled /\ (Done => ~op.result.success))

(***************************************************************************)
(* C23                                                                     *)
(***************************************************************************)
\* the backoff waits started for a provider, in order
WaitsTo(provider) == SelectSeq(op.waits, LAMBDA w : w.provider = provider)

\* the provider whose retry loop is waiting on its backoff timer
BackingOff(provider) ==
  op.pc = "ai_backoff" /\ RemovalModels[op.modelIdx] = provider

\* C23: the k-th backoff wait of a provider, started after its k-th failed
\* attempt, lasts 2^k seconds; one wait separates two consecutive requests to
\* the same provider; and no wait follows the last allowed attempt.
C23_ExponentialBackoff ==
  \A m \in 1..Len(RemovalModels) :
    \A w \in { WaitsTo(RemovalModels[m]) }, c \in { CallsTo(RemovalModels[m]) } :
      /\ \A k \in 1..Len(w) : w[k].ms = (2 ^ k) * 1000
      /\ Len(w) <= AI_MODELS[RemovalModels[m]].maxRetries - 1
      /\ Len(w) >= Len(c) - 1
      /\ ~Cancelled =>
           Len(w) = IF BackingOff(RemovalModels[m]) THEN Len(c) ELSE Max(Len(c) - 1, 0)

\* every provider failed on every attempt: two waits for rembg and u2net,
\* one for deeplab
C23_Witness ==
  /\ op.kind = "remove" /\ Done /\ ~Cancelled
  /\ Len(CallsTo("rembg")) = 3 /\ Len(CallsTo("u2net")) = 3
  /\ Len(CallsTo("deeplab")) = 2
  /\ op.waits = << [provider |-> "rembg", ms |-> 2000],
                   [provider |-> "rembg", ms |-> 4000],
                   [provider |-> "u2net", ms |-> 2000],
                   [provider |-> "u2net", ms |-> 4000],
                   [provider |-> "deeplab", ms |-> 2000] >>

(***************************************************************************)
(* C24                                                                     *)
(***************************************************************************)
LocalStages == {"fallback", "local_processing"}

\* C24: a removal whose signal is aborted while a provider is being tried
\* does not enter its local fallback and emits no 'fallback' or
\* 'local_processing' progress event.
C24_CancelSkipsFallback ==
  (op.kind = "remove" /\ op.abortedAt.pc \in ProviderPcs) =>
    /\ ~op.fallbackRun
    /\ \A k \in 1..Len(op.events) : op.events[k].stage \notin LocalStages

(***************************************************************************)
(* C25                                                                     *)
(***************************************************************************)
\* the progress events of the tiles processed so far
TileEvents(o) == SelectSeq(o.events, LAMBDA e : e.stage = "local_processing")

\* the step is taken by the operation
OperationStep == op'.pc # op.pc \/ op'.events # op.events

\* the tile loop is about to be entered, or waits on its timer with a tile
\* left to start
BeforeTile ==
  \/ ~op.fallbackRun /\ op'.fallbackRun
  \/ op.pc = "local_yield" /\ op.chunkIdx + 1 < Len(Tiles)

\* the step ends the removal with the cancelled failure and starts no tile
ReturnsCancelled ==
  /\ op'.pc = "done"
  /\ ~op'.result.success
  /\ op'.result.error = "Processing cancelled"
  /\ TileEvents(op') = TileEvents(op)

StageRank(stage) ==
  CASE stage = "initialization" -> 1
    [] stage = "preparation" -> 2
    [] stage = "ai_processing" -> 3
    [] stage = "fallback" -> 4
    [] stage = "local_processing" -> 5
    [] stage = "finalization" -> 6
    [] stage = "completion" -> 7

\* C26: the stages of the progress events of a removal appear in the order
\* initialization, preparation, provider stages, fallback, local processing,
\* finalization, completion, and a removal that returns a successful result
\* has emitted a finalization event followed by a completion event.
C26_StagesInOrderToComplete ==
  op.kind = "remove" =>
    /\ \A i, j \in 1..Len(op.events) :
         i < j => StageRank(op.events[i].stage) <= StageRank(op.events[j].stage)
    /\ (Done /\ op.result.success) =>
         \E i, j \in 1..Len(op.events) :
           /\ i < j
           /\ op.events[i].stage = "finalization"
           /\ op.events[j].stage = "completion"

(***************************************************************************)
(* C27                                                                     *)
(***************************************************************************)
\* the registry entry that the activation set at its submission
OwnEntry(a) == [id |-> a.processingId, controller |-> a.controller]

\* C27: from its submission to its return an operation that was not
\* cancelled is in the registry under its id with its own controller; once
\* it has returned its entry is gone; and with no operation in flight the
\* registry is empty.
C27_RegisteredWhileInFlight ==
  /\ \A i \in Running :
       op[i].controller \notin aborted => OwnEntry(op[i]) \in processingQueue
  /\ \A i \in 1..Len(op) :
       op[i].pc = "done" => OwnEntry(op[i]) \notin processingQueue
  /\ Running = {} => processingQueue = {}

(***************************************************************************)
(* C28                                                                     *)
(***************************************************************************)
\* the entries that a sweep of the registry would delete now
Swept == processingQueue \ forceGarbageCollection(processingQueue, aborted)

\* the operation that owns the controller has returned
Returned(controller) ==
  \E i \in 1..Len(op) : op[i].controller = controller /\ op[i].pc = "done"

\* C28: a sweep deletes only entries whose signal is aborted and whose
\* operation has returned: never the entry of an operation whose signal is
\* not aborted, never the entry of an operation in flight.
C28_SweepOnlyDeadEntries ==
  \A e \in Swept : e.controller \in aborted /\ Returned(e.controller)

\* the memory timer has just sampled a usage above the limit and swept the
\* registry, which still holds the entry of an operation in flight, while
\* another operation in flight is cancelled and one has returned
C28_Witness ==
  /\ memoryUsage > MAX_MEMORY_MB
  /\ \E i \in Running :
       op[i].controller \notin aborted /\ OwnEntry(op[i]) \in processingQueue
  /\ \E i \in Running : op[i].controller \in aborted
  /\ \E i \in 1..Len(op) : op[i].pc = "done"

(***************************************************************************)
(* C29                                                                     *)
(***************************************************************************)
\* the pixels of the operation's buffer
BufferPixels ==
  { [x |-> x, y |-> y] : x \in 0..(op.imageData.width - 1),
                         y \in 0..(op.imageData.height - 1) }

\* the summed channel difference between the pixel and the seed pixel
SeedDistance(p) ==
  LET px == PixelAt(op.imageData.data, op.imageData.width, p.x, p.y)
      seed == PixelAt(op.imageData.data, op.imageData.width,
                      op.clickPoint.x, op.clickPoint.y)
  IN Abs(px[1] - seed[1]) + Abs(px[2] - seed[2]) + Abs(px[3] - seed[3])

\* the pixels within the threshold that a path of horizontal and vertical
\* steps through such pixels joins to a pixel of S
RECURSIVE Connected(_)
Connected(S) ==
  CHOOSE all \in
    { IF grown = S THEN S ELSE Connected(grown)
        : grown \in { S \cup { q \in BufferPixels :
                                 /\ SeedDistance(q) <= ColorThreshold
                                 /\ \E p \in S : Abs(p.x - q.x) + Abs(p.y - q.y) = 1 } } }
      : TRUE

C30_MinimumRegionKept ==
  (op.kind = "detect" /\ Done /\ op.fallbackRun) =>
    \A region \in { IF op.clickPoint = NoPoint THEN << >>
                    ELSE floodFill(op.imageData, op.clickPoint.x, op.clickPoint.y,
                                   NewVisited) } :
      \A objects \in { op.result.detectedObjects } :
        IF Len(region) >= MinRegion
        THEN /\ Len(objects) = 1
             /\ objects[1].label = "Detected Region"
             /\ objects[1].confidence = 70
        ELSE objects = << >>

(***************************************************************************)
(* C31                                                                     *)
(***************************************************************************)
\* the usage sampled at the submission is above the soft threshold (80% of
\* the limit) and not above the limit
SoftLimitOnly ==
  InsufficientMemory(op.memoryAtSubmit) /\ op.memoryAtSubmit <= MAX_MEMORY_MB

\* C31: an operation submitted while the memory usage is above the soft
\* threshold but not above the hard limit is not rejected for memory reasons.
C31_SoftLimitOnlyWarns ==
  (op.pc # "idle" /\ SoftLimitOnly) =>
    op.result.error # "Insufficient memory for processing"

(***************************************************************************)
(* The hook useAIProcessing with the service behind it: op holds the state *)
(* of the hook as the last render committed it (ui), the state that the    *)
(* queued updates will commit (next), and the service operations started   *)
(* through the hook (started).  The callbacks of a render read ui; a       *)
(* setState call writes next; a render commits next.                       *)
(***************************************************************************)
\* the calls made through the hook in one behaviour
MaxHookCalls == 3

\* useState(false), useState(false), useState(null), useState(null),
\* useState(null); of progress, error and result only the presence of a value
\* is kept, and the list of detected objects is left out
HookState ==
  [isProcessing |-> FALSE, isDetecting |-> FALSE, progress |-> "null",
   error |-> "null", result |-> "null"]

HookInit ==
  /\ processingQueue = {}
  /\ memoryUsage = 0
  /\ aborted = {}
  /\ now = 0
  /\ opCount = 0
  /\ op = [ui |-> HookState, next |-> HookState, started |-> << >>, refused |-> 0]

\* the service registers the operation under an id built from the clock and
\* runs up to its first await
ServiceCall(kind, prefix, t, atStart) ==
  /\ op' = [op EXCEPT !.next = atStart,
                      !.started = Append(@, [kind |-> kind,
                                             processingId |-> <<prefix, t>>,
                                             controller |-> opCount + 1,
                                             pc |-> "running",
                                             returnedBefore |->
                                               {i \in 1..Len(op.started) :
                                                  op.started[i].pc = "done"}])]
  /\ processingQueue' = QueueSet(processingQueue, <<prefix, t>>, opCount + 1)
  /\ now' = t
  /\ opCount' = opCount + 1
  /\ UNCHANGED <<memoryUsage, aborted>>

\* the call returns without contacting the service
ReturnsEarly ==
  /\ op' = [op EXCEPT !.refused = @ + 1]
  /\ UNCHANGED <<processingQueue, memoryUsage, aborted, now, opCount>>

\* the hook's processSmartRemoval is called: the guard reads the state of the
\* last render; the updates are queued and the service is called
HookProcessSmartRemoval ==
  /\ opCount + op.refused < MaxHookCalls
  /\ IF op.ui.isProcessing
     THEN ReturnsEarly
     ELSE \E t \in now..MaxNow :
            ServiceCall("remove", "smart_remove", t,
                        [op.next EXCEPT !.isProcessing = TRUE, !.error = "null",
                                        !.result = "null", !.progress = "null"])

\* the hook's detectObjects is called
HookDetectObjects ==
  /\ opCount + op.refused < MaxHookCalls
  /\ IF op.ui.isDetecting \/ op.ui.isProcessing
     THEN ReturnsEarly
     ELSE \E t \in now..MaxNow :
            ServiceCall("detect", "object_detection", t,
                        [op.next EXCEPT !.isDetecting = TRUE, !.error = "null"])

\* variant: the busy flags are lowered only after a successful result
HookSettled_BusyOnFailure(kind, success) ==
  IF kind = "remove"
  THEN [op.next EXCEPT !.result = "set",
                       !.error = IF success THEN @ ELSE "set",
                       !.isProcessing = IF success THEN FALSE ELSE @,
                       !.progress = "null"]
  ELSE [op.next EXCEPT !.isDetecting = FALSE, !.progress = "null"]

\* the continuation of the hook after the awaited service call, with its
\* finally block: the state that the queued updates will commit
HookSettled(kind, success) ==
  IF kind = "remove"
  THEN [op.next EXCEPT !.result = "set",
                       !.error = IF success THEN @ ELSE "set",
                       !.isProcessing = FALSE,
                       !.progress = "null"]
  ELSE [op.next EXCEPT !.isDetecting = FALSE, !.progress = "null"]

\* the service calls onProgress: setProgress(progressUpdate)
HookProgress ==
  \E i \in 1..Len(op.started) :
    /\ op.started[i].pc = "running"
    /\ op' = [op EXCEPT !.next.progress = "shown"]
    /\ UNCHANGED <<processingQueue, memoryUsage, aborted, now, opCount>>

\* a service operation returns (its finally block deletes its id) and the
\* hook's continuation runs
HookServiceReturn ==
  \E i \in 1..Len(op.started), success \in BOOLEAN :
    /\ op.started[i].pc = "running"
    /\ op.started[i].kind = "detect" => success
    /\ op' = [op EXCEPT !.started[i].pc = "done",
                        !.next = HookSettled(op.started[i].kind, success)]
    /\ processingQueue' = QueueDelete(processingQueue, op.started[i].processingId)
    /\ UNCHANGED <<memoryUsage, aborted, now, opCount>>

\* React renders: the queued updates are committed
HookRender ==
  /\ op.next # op.ui
  /\ op' = [op EXCEPT !.ui = op.next]
  /\ UNCHANGED <<processingQueue, memoryUsage, aborted, now, opCount>>

HookStateNext ==
  \/ HookProcessSmartRemoval
  \/ HookDetectObjects
  \/ HookProgress
  \/ HookServiceReturn
  \/ HookRender

HookStateSpec == HookInit /\ [][HookStateNext]_vars

(***************************************************************************)
(* C32                                                                     *)
(***************************************************************************)
\* the service operations started through the hook that have not returned
HookRunning == {i \in 1..Len(op.started) : op.started[i].pc = "running"}

\* C32: at most one service operation started through the hook is in flight
\* at any time, whatever the order of the calls and of the renders.
C32_HookSerializes == Cardinality(HookRunning) <= 1

(***************************************************************************)
(* C38                                                                     *)
(***************************************************************************)
HookRunningOf(kind) == {i \in HookRunning : op.started[i].kind = kind}

\* C38: once the removals started through the hook have returned, the
\* queued state holds isProcessing = false (isDetecting = false for the
\* detections), and with no operation left the progress is cleared; after
\* the render the guards of the hook let a new call through.
C38_BusyStateReleased ==
  /\ HookRunningOf("remove") = {} => ~op.next.isProcessing
  /\ HookRunningOf("detect") = {} => ~op.next.isDetecting
  /\ HookRunning = {} => op.next.progress = "null"
  /\ (HookRunning = {} /\ op.ui = op.next) =>
       (~op.ui.isProcessing /\ ~op.ui.isDetecting /\ op.ui.progress = "null")

\* a removal, then a detection started after the removal had returned, both
\* returned and rendered
C38_Witness ==
  /\ Len(op.started) = 2
  /\ HookRunning = {}
  /\ op.started[1].kind = "remove" /\ op.started[2].kind = "detect"
  /\ op.started[2].returnedBefore = {1}
  /\ op.ui = op.next
  /\ op.ui.result = "set"
  /\ ~op.ui.isProcessing /\ ~op.ui.isDetecting /\ op.ui.progress = "null"

(***************************************************************************)
(* The editor MediaEditor: op holds the state of the component as React    *)
(* rendered it.  Every handler runs on a discrete event and is followed by *)
(* the render of the state it set, so a handler reads the state the        *)
(* handler before it left.  Of a point only whether it was placed (by a    *)
(* click or as a corner of a bounding box) or moved by a drag is kept;     *)
(* last names the handler that ran last.                                   *)
(***************************************************************************)
\* the points one selection holds in the model
MaxPoints == 4

\* useState<number | null>(null) of draggedPointIndex; indexes count from 0
NullIndex == 0 - 1

\* useState<Selection>({ points: [], isComplete: false })
EmptySelection == [points |-> << >>, isComplete |-> FALSE]

\* nothing was handed to processSmartRemoval yet
NoSubmission == [n |-> 0 - 1, isComplete |-> FALSE, selectedObj |-> FALSE]

EditorInit ==
  /\ processingQueue = {}
  /\ memoryUsage = 0
  /\ aborted = {}
  /\ now = 0
  /\ opCount = 0
  /\ op = [selection |-> EmptySelection,
           draggedPointIndex |-> NullIndex,
           isDragging |-> FALSE,
           smartSelectionMode |-> FALSE,
           selectedObjectId |-> "null",
           detectedObjects |-> FALSE,
           isProcessing |-> FALSE,
           isDetecting |-> FALSE,
           mounted |-> TRUE,
           last |-> "none",
           submitted |-> NoSubmission]

\* setSelection({ points: newPoints, isComplete: newPoints.length >= 3 })
WithPoints(newPoints) == [points |-> newPoints, isComplete |-> Len(newPoints) >= 3]

\* selection.points.filter((_, index) => index !== pointIndex)
WithoutIndex(points, pointIndex) ==
  SubSeq(points, 1, pointIndex) \o SubSeq(points, pointIndex + 2, Len(points))

\* undoLastPoint with a stale completeness flag
undoLastPoint_KeepsComplete(selection) ==
  [points |-> SubSeq(selection.points, 1, Len(selection.points) - 1),
   isComplete |-> selection.isComplete]

\* selection.points.slice(0, -1) and the selection set from it
undoLastPoint(selection) ==
  WithPoints(SubSeq(selection.points, 1, Len(selection.points) - 1))

Busy == op.isProcessing \/ op.isDetecting

EditorUnchanged == UNCHANGED <<processingQueue, memoryUsage, aborted, now, opCount>>

\* handleFileUpload, handleDrop with an image or a video file
HandleFileUpload ==
  /\ op.mounted
  /\ op' = [op EXCEPT !.last = "HandleFileUpload", !.selection = EmptySelection,
                      !.smartSelectionMode = FALSE,
                      !.selectedObjectId = "null",
                      !.detectedObjects = FALSE]
  /\ EditorUnchanged

\* handleCanvasClick: in smart mode the click starts a detection, in manual
\* mode it adds a point
HandleCanvasClick ==
  /\ op.mounted
  /\ ~op.isDragging /\ ~Busy
  /\ IF op.smartSelectionMode
       THEN op' = [op EXCEPT !.last = "HandleCanvasClick", !.isDetecting = TRUE]
       ELSE /\ Len(op.selection.points) < MaxPoints
            /\ op' = [op EXCEPT !.last = "HandleCanvasClick", !.selection =
                        WithPoints(Append(op.selection.points, "placed"))]
  /\ EditorUnchanged

\* the hook's detectObjects returns: the list found may be empty
DetectionReturns ==
  /\ op.mounted
  /\ op.isDetecting
  /\ \E found \in BOOLEAN :
       op' = [op EXCEPT !.last = "DetectionReturns", !.isDetecting = FALSE,
                        !.detectedObjects = IF found THEN TRUE ELSE @]
  /\ EditorUnchanged

\* handleObjectSelect, on the overlay or in the panel of detected objects:
\* the selection becomes the four corners of the bounding box
HandleObjectSelect ==
  /\ op.mounted
  /\ op.detectedObjects
  /\ op' = [op EXCEPT !.last = "HandleObjectSelect", !.selectedObjectId = "object",
                      !.selection = [points |-> <<"placed", "placed", "placed", "placed">>,
                                     isComplete |-> TRUE]]
  /\ EditorUnchanged

\* toggleSmartSelection: entering smart mode clears the selection
ToggleSmartSelection ==
  /\ op.mounted
  /\ ~Busy
  /\ op' = IF ~op.smartSelectionMode
             THEN [op EXCEPT !.last = "ToggleSmartSelection", !.smartSelectionMode = TRUE,
                             !.detectedObjects = FALSE,
                             !.selectedObjectId = "null",
                             !.selection = EmptySelection]
             ELSE [op EXCEPT !.last = "ToggleSmartSelection", !.smartSelectionMode = FALSE]
  /\ EditorUnchanged

\* the two mode buttons of the side panel: setSmartSelectionMode(mode)
SetSmartSelectionMode ==
  /\ op.mounted
  /\ ~Busy
  /\ \E mode \in BOOLEAN :
       /\ mode # op.smartSelectionMode
       /\ op' = [op EXCEPT !.last = "SetSmartSelectionMode", !.smartSelectionMode = mode]
  /\ EditorUnchanged

\* the points drawn over the canvas, which take the mouse events
DrawnPoints ==
  IF op.smartSelectionMode THEN {} ELSE 0..(Len(op.selection.points) - 1)

\* handlePointMouseDown
HandlePointMouseDown ==
  /\ op.mounted
  /\ ~Busy
  /\ \E pointIndex \in DrawnPoints :
       op' = [op EXCEPT !.last = "HandlePointMouseDown", !.draggedPointIndex = pointIndex, !.isDragging = TRUE]
  /\ EditorUnchanged

\* handlePointDoubleClick
HandlePointDoubleClick ==
  /\ op.mounted
  /\ ~Busy
  /\ \E pointIndex \in DrawnPoints :
       op' = [op EXCEPT !.last = "HandlePointDoubleClick", !.selection =
                WithPoints(WithoutIndex(op.selection.points, pointIndex))]
  /\ EditorUnchanged

\* handleMouseMove: newPoints[draggedPointIndex] = { x, y }.  An index past
\* the end leaves empty slots before it, the render of the lines between
\* the points reads prevPoint.x of an empty slot and throws, and the error
\* boundary takes the editor down
HandleMouseMove ==
  /\ op.mounted
  /\ op.draggedPointIndex # NullIndex /\ op.isDragging
  /\ ~Busy /\ ~op.smartSelectionMode
  /\ op' = IF op.draggedPointIndex < Len(op.selection.points)
             THEN [op EXCEPT !.last = "HandleMouseMove", !.selection =
                     WithPoints([op.selection.points
                                   EXCEPT ![op.draggedPointIndex + 1] = "moved"])]
             ELSE IF op.draggedPointIndex = Len(op.selection.points)
                    THEN [op EXCEPT !.last = "HandleMouseMove", !.selection =
                            WithPoints(Append(op.selection.points, "moved"))]
                    ELSE [op EXCEPT !.last = "HandleMouseMove", !.mounted = FALSE]
  /\ EditorUnchanged

\* handleMouseUp, also on mouse leave
HandleMouseUp ==
  /\ op.mounted
  /\ op.isDragging
  /\ op' = [op EXCEPT !.last = "HandleMouseUp",
                      !.draggedPointIndex = NullIndex, !.isDragging = FALSE]
  /\ EditorUnchanged

\* undoLastPoint
UndoLastPoint ==
  /\ op.mounted
  /\ Len(op.selection.points) # 0 /\ ~Busy /\ ~op.smartSelectionMode
  /\ op' = [op EXCEPT !.last = "UndoLastPoint", !.selection = undoLastPoint(op.selection)]
  /\ EditorUnchanged

\* clearSelection
ClearSelection ==
  /\ op.mounted
  /\ ~Busy
  /\ op' = [op EXCEPT !.last = "ClearSelection", !.selection = EmptySelection,
                      !.selectedObjectId = "null",
                      !.detectedObjects = FALSE,
                      !.smartSelectionMode = FALSE]
  /\ EditorUnchanged

\* applyFilter('smart_remove'): the selection goes to processSmartRemoval
\* with the selected object, if one is selected and still in the list
ApplySmartRemove ==
  /\ op.mounted
  /\ ~Busy
  /\ op.selection.isComplete
  /\ op' = [op EXCEPT !.last = "ApplySmartRemove", !.isProcessing = TRUE,
                      !.submitted =
                        [n |-> Len(op.selection.points),
                         isComplete |-> op.selection.isComplete,
                         selectedObj |-> op.selectedObjectId # "null"
                                           /\ op.detectedObjects]]
  /\ EditorUnchanged

\* the hook's processSmartRemoval returns
RemovalReturns ==
  /\ op.mounted
  /\ op.isProcessing
  /\ op' = [op EXCEPT !.last = "RemovalReturns", !.isProcessing = FALSE]
  /\ EditorUnchanged

EditorNext ==
  \/ HandleFileUpload
  \/ HandleCanvasClick
  \/ DetectionReturns
  \/ HandleObjectSelect
  \/ ToggleSmartSelection
  \/ SetSmartSelectionMode
  \/ HandlePointMouseDown
  \/ HandlePointDoubleClick
  \/ HandleMouseMove
  \/ HandleMouseUp
  \/ UndoLastPoint
  \/ ClearSelection
  \/ ApplySmartRemove
  \/ RemovalReturns

EditorSpec == EditorInit /\ [][EditorNext]_vars

\* C33: after any sequence of editor actions the selection is marked complete
\* exactly when it holds at least 3 points, and the selection handed to the
\* smart removal is a complete one.
C33_CompleteIffThreePoints ==
  /\ op.selection.isComplete <=> Len(op.selection.points) >= 3
  /\ op.submitted # NoSubmission =>
       (op.submitted.isComplete /\ op.submitted.n >= 3)

\* a selection of three points, one of them moved by a drag, was submitted,
\* and the selection was then undone to two points
C33_Witness ==
  /\ op.submitted # NoSubmission
  /\ op.submitted.n = 3
  /\ op.selection.points = <<"placed", "moved">>
  /\ ~op.selection.isComplete
  /\ ~Busy

(***************************************************************************)
(* C34                                                                     *)
(***************************************************************************)
\* C34: failures are reported as values: a removal that has returned holds
\* either a successful result or success = false with a non-empty error
\* message, and a detection that has returned holds a list of objects
\* (possibly empty), whatever the providers threw.
C34_FailuresAreValues ==
  Done =>
    /\ op.kind = "remove" =>
         \/ op.result.success /\ op.result.error = ""
         \/ ~op.result.success /\ op.result.error # ""
    /\ op.kind = "detect" =>
         op.result = Detected(op.result.detectedObjects, op.result.by)

\* a removal whose providers all failed was cancelled in the local fallback
\* and returned the failure as a value
C34_Witness ==
  /\ Done
  /\ op.kind = "remove"
  /\ op.fallbackRun
  /\ Len(op.calls) > 0
  /\ \A i \in 1..Len(op.calls) : op.calls[i].outcome = "fail"
  /\ ~op.result.success
  /\ op.result.error = "Processing cancelled"

(***************************************************************************)
(* C35                                                                     *)
(***************************************************************************)
\* the entries of the registry whose signal is aborted
SignaledEntries == {e \in processingQueue : e.controller \in aborted}

\* C35: no entry of the registry holds a controller whose signal is already
\* aborted (cancelProcessing and cleanup delete the entry in the step that
\* aborts it), so a sweep would leave the registry as it is.
C35_NoSignaledEntry ==
  /\ SignaledEntries = {}
  /\ forceGarbageCollection(processingQueue, aborted) = processingQueue

\* two operations were cancelled, a third one is registered, and the memory
\* timer has sampled a usage above the limit and swept the registry
C35_Witness ==
  /\ Cardinality(aborted) >= 2
  /\ processingQueue # {}
  /\ memoryUsage > MAX_MEMORY_MB

(***************************************************************************)
(* The tile loop of advancedLocalRemoval on buffers of several tiles in    *)
(* both directions: op holds the size of the buffer, the tiles created,    *)
(* the tiles handed to processChunk so far and the position of the loop.   *)
(* The pixels are left out: createProcessingChunks reads the width and the *)
(* height only, and the loop hands each tile to processChunk untouched.    *)
(***************************************************************************)
\* the widest buffer, in tiles
MaxTileColumns == 2

\* the widths around the tile boundaries, and heights of no, one and two
\* rows of tiles
BufferWidths ==
  {0, 1} \cup { k * chunkSize + d : k \in 1..MaxTileColumns, d \in {0 - 1, 0, 1} }
BufferHeights == {0, 1, chunkSize + 1}

ChunkInit ==
  /\ processingQueue = {}
  /\ memoryUsage = 0
  /\ aborted = {}
  /\ now = 0
  /\ opCount = 0
  /\ \E w \in BufferWidths, h \in BufferHeights :
       op = [imageData |-> [width |-> w, height |-> h, data |-> << >>],
             chunks |-> << >>, processed |-> << >>, pc |-> "start",
             signalAborted |-> FALSE, success |-> FALSE]

\* one pass of the for loop: the cancellation check, then processChunk on
\* chunks[i] and the 10 ms timer; after the last tile the success result
ChunkLoop(o) ==
  LET i == Len(o.processed)
  IN IF i < Len(o.chunks)
     THEN IF o.signalAborted
          THEN [o EXCEPT !.pc = "done", !.success = FALSE]
          ELSE [o EXCEPT !.processed = Append(@, o.chunks[i + 1]), !.pc = "yield"]
     ELSE [o EXCEPT !.pc = "done", !.success = TRUE]

\* advancedLocalRemoval is entered: the tiles are created and the loop runs
\* up to its first await
ChunkStart ==
  /\ op.pc = "start"
  /\ op' = ChunkLoop([op EXCEPT !.chunks =
                        createProcessingChunks(op.imageData, MaskOfLen(MaxMaskPoints))])
  /\ UNCHANGED <<processingQueue, memoryUsage, aborted, now, opCount>>

\* the timer of the loop fires
ChunkYield ==
  /\ op.pc = "yield"
  /\ op' = ChunkLoop(op)
  /\ UNCHANGED <<processingQueue, memoryUsage, aborted, now, opCount>>

\* the signal handed to advancedLocalRemoval is aborted
ChunkCancel ==
  /\ op.pc # "done"
  /\ ~op.signalAborted
  /\ op' = [op EXCEPT !.signalAborted = TRUE]
  /\ UNCHANGED <<processingQueue, memoryUsage, aborted, now, opCount>>

ChunkNext ==
  \/ ChunkStart
  \/ ChunkYield
  \/ ChunkCancel

ChunkSpec == ChunkInit /\ [][ChunkNext]_vars

\* the tiles that hold the pixel (x, y)
TilesHolding(x, y) ==
  { i \in 1..Len(op.chunks) :
      /\ op.chunks[i].x <= x /\ x < op.chunks[i].x + op.chunks[i].width
      /\ op.chunks[i].y <= y /\ y < op.chunks[i].y + op.chunks[i].height }

\* C36: the tiles partition the buffer (each pixel lies in exactly one tile,
\* each tile lies inside the buffer and is 1 to 100 pixels wide and high),
\* they are created and processed in row-major order, and an uncancelled run
\* processes each of them exactly once.
C36_TilesPartitionBuffer ==
  op.pc # "start" =>
    /\ \A x \in 0..(op.imageData.width - 1), y \in 0..(op.imageData.height - 1) :
         Cardinality(TilesHolding(x, y)) = 1
    /\ \A i \in 1..Len(op.chunks) :
         /\ 0 <= op.chunks[i].x /\ 0 <= op.chunks[i].y
         /\ op.chunks[i].x + op.chunks[i].width <= op.imageData.width
         /\ op.chunks[i].y + op.chunks[i].height <= op.imageData.height
         /\ 1 <= op.chunks[i].width /\ op.chunks[i].width <= chunkSize
         /\ 1 <= op.chunks[i].height /\ op.chunks[i].height <= chunkSize
    /\ \A i, j \in 1..Len(op.chunks) :
         i < j => \/ op.chunks[i].y < op.chunks[j].y
                  \/ op.chunks[i].y = op.chunks[j].y /\ op.chunks[i].x < op.chunks[j].x
    /\ Len(op.processed) <= Len(op.chunks)
    /\ op.processed = SubSeq(op.chunks, 1, Len(op.processed))
    /\ (op.pc = "done" /\ ~op.signalAborted) =>
         (op.success /\ op.processed = op.chunks)

\* an uncancelled run over a buffer of 201 x 101 pixels has processed its
\* six tiles, the edge tiles one pixel wide and high
C36_Witness ==
  /\ op.pc = "done"
  /\ ~op.signalAborted
  /\ op.imageData.width = 2 * chunkSize + 1
  /\ op.imageData.height = chunkSize + 1
  /\ Len(op.processed) = 6
  /\ op.processed[6].width = 1 /\ op.processed[6].height = 1

(***************************************************************************)
(* C37                                                                     *)
(***************************************************************************)
\* the providers that received a request of the operation
Contacted == {op.calls[i].provider : i \in 1..Len(op.calls)}

\* the positions of the requests to a provider among the operation's requests
RequestsTo(provider) == {i \in 1..Len(op.calls) : op.calls[i].provider = provider}

\* C37: in one detection call each detection provider receives at most one
\* request; in one removal call the inpainting endpoint receives at most one
\* request, only when a detected object was passed, and before any legacy
\* removal provider receives one.
C37_OneRequestPerEndpoint ==
  /\ op.kind = "detect" =>
       \A provider \in Contacted : Cardinality(RequestsTo(provider)) <= 1
  /\ op.kind = "remove" =>
       /\ Cardinality(RequestsTo(InpaintingProvider)) <= 1
       /\ RequestsTo(InpaintingProvider) # {} => op.selectedObject
       /\ \A i \in RequestsTo(InpaintingProvider) :
            \A j \in 1..Len(op.calls) :
              op.calls[j].provider # InpaintingProvider => i < j

\* a removal with a detected object: the inpainting request failed, and the
\* legacy providers were then contacted, the first of them more than once
C37_Witness ==
  /\ op.kind = "remove"
  /\ op.selectedObject
  /\ Len(op.calls) >= 4
  /\ op.calls[1].provider = InpaintingProvider
  /\ op.calls[1].outcome = "fail"
  /\ op.calls[2].provider = RemovalModels[1]
  /\ op.calls[3].provider = RemovalModels[1]
  /\ RequestsTo(InpaintingProvider) = {1}

====
